---- MODULE Spec2Model ----
(***************************************************************************)
(* Model of the code indexing and retrieval engine of codebase-mcp:        *)
(* SemanticSearchEngine (semantic_search/core.py), VectorStore             *)
(* (semantic_search/vector_store.py), the chunkers (chunkers/*.py) and the *)
(* EnhancedSearchManager (semantic_search/enhanced_search.py).             *)
(*                                                                         *)
(* The working tree holds the files of Files.  A path is a record          *)
(* [form, file]: form "abs" is the path joined to the working directory    *)
(* (what os.walk / Path(working_dir) / p produce), form "rel" is the path  *)
(* relative to the working directory (what API callers pass).  The process *)
(* runs with the working directory as its current directory, so both forms *)
(* open the same file.                                                     *)
(*                                                                         *)
(* Every `await` inside an engine operation is taken as a point where      *)
(* another task may run, so an operation is a sequence of steps            *)
(* (task[t].pc); this admits every interleaving an event loop can produce. *)
(* The file system is edited only while no indexing operation holds the    *)
(* lock.                                                                   *)
(***************************************************************************)
EXTENDS Integers, Sequences, FiniteSets, TLC

\* ------------------------------------------------------------------ bounds
MaxVectors == 5     \* vectors the embedding index may hold
MaxTopK == 2        \* largest max_results / top_k of a search request

\* ------------------------------------------------------------ working tree
Files == {"a.py", "n.md"}
FileOrder == <<"a.py", "n.md">>
Tasks == {"t1", "t2"}

\* the files edited while the engine runs
Edited == {"a.py"}

Suffix(f) == IF f = "a.py" THEN ".py" ELSE ".md"

NoFile == <<"<absent>">>

\* a file that is listed in the tree but cannot be opened
Unreadable == <<"<unreadable>">>

\* open(path) succeeds
CanOpen(content) == content \notin {NoFile, Unreadable}

\* the content of a source file the parser rejects
Unparseable == <<"<syntax error>">>

\* A file's content is its sequence of lines; line i of a source file
\* declares the function named content[i] ("def <name>(): pass").
ContentsOf(f) ==
    IF f = "a.py" THEN {<<"foo", "bar">>, <<"file_overview">>}
    ELSE {<<"foo">>}

InitialDisk == [f \in Files |-> IF f = "a.py" THEN <<"foo", "bar">> ELSE <<"foo">>]

Paths == [form : {"rel", "abs"}, file : Files]

Rel(f) == [form |-> "rel", file |-> f]
Abs(f) == [form |-> "abs", file |-> f]

\* Path(self.working_dir) / file_path
JoinWorkingDir(p) == Abs(p.file)

Min(a, b) == IF a < b THEN a ELSE b

\* ----------------------------------------------------------------- hashing
NoHash == <<>>
Sha1(content) == <<"sha1", content>>

\* --------------------------------------------------------------- variables
VARIABLES
    disk,          \* file -> content, or NoFile
    initialized,   \* SemanticSearchEngine._is_initialized
    lock,          \* holder of SemanticSearchEngine._processing_lock, or "free"
    task,          \* per task: the engine call it is running and its position
    chunks,        \* rows of the chunks table
    file_hashes,   \* rows of the file_hashes table
    index,         \* the FAISS index: the sequence of vectors added so far
    orphaned,      \* index rows whose metadata row was deleted or replaced
    removed,       \* paths of the latest remove_file_chunks calls, not added since
    embedCalls,    \* _generate_embeddings calls made by the latest step
    response       \* what the call that has just returned gave back

vars == <<disk, initialized, lock, task, chunks, file_hashes, index,
          orphaned, removed, embedCalls, response>>

\* ---------------------------------------------------------------- chunkers
code_extensions == {".py", ".js", ".ts", ".jsx", ".tsx", ".json", ".yaml", ".yml", ".toml"}
python_extensions == {".py"}
js_extensions == {".js", ".ts", ".jsx", ".tsx"}

\* an id that also depends on how many vectors the index holds when the
\* chunk is made
generate_chunk_id_counted(file_path, symbol_name, line_start) ==
    <<"md5", file_path, symbol_name, line_start, Len(index)>>

\* BaseChunker._generate_chunk_id: md5 of "file_path:symbol_name:line_start"
generate_chunk_id(file_path, symbol_name, line_start) ==
    <<"md5", file_path, symbol_name, line_start>>

FileName(p) == p.file

create_file_overview(file_path, content) ==
    [chunk_id |-> generate_chunk_id(file_path, "file_overview", 1),
     file_path |-> file_path,
     chunk_type |-> "file_overview",
     symbol_name |-> "file_overview",
     line_start |-> 1,
     line_end |-> Len(content),
     content |-> <<"overview">> \o content,
     file_hash |-> NoHash]

create_function_chunk(file_path, content, i) ==
    [chunk_id |-> generate_chunk_id(file_path, content[i], i),
     file_path |-> file_path,
     chunk_type |-> "function",
     symbol_name |-> content[i],
     line_start |-> i,
     line_end |-> i,
     content |-> <<"def", content[i]>>,
     file_hash |-> NoHash]

\* the chunk PythonChunker.chunk_file returns on a SyntaxError
syntax_error_chunk(file_path) ==
    [chunk_id |-> generate_chunk_id(file_path, "syntax_error", 1),
     file_path |-> file_path,
     chunk_type |-> "error",
     symbol_name |-> "syntax_error",
     line_start |-> 1,
     line_end |-> 1,
     content |-> <<"Syntax error">>,
     file_hash |-> NoHash]

\* a chunker that drops a file it cannot parse
skip_unparseable(file_path) == <<>>

\* the `except SyntaxError` branch of PythonChunker.chunk_file
on_syntax_error(file_path) == <<syntax_error_chunk(file_path)>>

PythonChunker_chunk_file(file_path, content) ==
    IF content = Unparseable THEN on_syntax_error(file_path)
    ELSE <<create_file_overview(file_path, content)>>
           \o [i \in 1..Len(content) |-> create_function_chunk(file_path, content, i)]

fallback_chunk(file_path, content, file_hash) ==
    [chunk_id |-> <<"raw", file_path, 1>>,
     file_path |-> file_path,
     chunk_type |-> "file",
     symbol_name |-> FileName(file_path),
     line_start |-> 1,
     line_end |-> Len(content),
     content |-> <<"text">> \o content,
     file_hash |-> file_hash]

calculate_sha1(p) == IF CanOpen(disk[p.file]) THEN Sha1(disk[p.file]) ELSE NoHash

\* SemanticSearchEngine._process_file: the chunks of the file at path p, each
\* stamped with the file's hash; no chunk when the file cannot be opened.
process_file(p) ==
    LET content == disk[p.file]
        file_hash == calculate_sha1(p)
    IN IF ~CanOpen(content) THEN <<>>
       ELSE IF Suffix(p.file) \in python_extensions
            THEN LET cs == PythonChunker_chunk_file(p, content)
                 IN [i \in 1..Len(cs) |-> [cs[i] EXCEPT !.file_hash = file_hash]]
            ELSE <<fallback_chunk(p, content, file_hash)>>

\* SemanticSearchEngine._get_code_files: the files of the tree with an
\* indexable extension, as paths joined to the working directory.
get_code_files ==
    LET keep(f) == disk[f] # NoFile /\ Suffix(f) \in code_extensions
    IN [i \in 1..Len(SelectSeq(FileOrder, keep)) |-> Abs(SelectSeq(FileOrder, keep)[i])]

RECURSIVE FlattenChunks(_)
FlattenChunks(ps) ==
    IF ps = <<>> THEN <<>> ELSE process_file(Head(ps)) \o FlattenChunks(Tail(ps))

\* ------------------------------------------------------------ vector store
Encode(text) == <<"vec", text>>

\* a numbering that starts every batch at row 0 of the index
FaissIdxFromZero(current_faiss_size, i) == i

\* faiss_idx = current_faiss_size + i
FaissIdx(current_faiss_size, i) == current_faiss_size + i

\* an index that keeps only the vectors of the latest batch
IndexAddReplace(ix, vs) == vs

\* self.index.add(embeddings)
IndexAdd(ix, vs) == ix \o vs

\* The INSERT OR REPLACE loop of add_chunks over chunks i..Len(cs): a row
\* with the same chunk_id is replaced, and its vector is orphaned.
RECURSIVE InsertRows(_, _, _, _, _)
InsertRows(rows, orph, cs, i, base) ==
    IF i > Len(cs) THEN [rows |-> rows, orph |-> orph]
    ELSE LET c == cs[i]
             old == {r \in rows : r.chunk_id = c.chunk_id}
             row == [chunk_id |-> c.chunk_id,
                     file_path |-> c.file_path,
                     chunk_type |-> c.chunk_type,
                     symbol_name |-> c.symbol_name,
                     line_start |-> c.line_start,
                     line_end |-> c.line_end,
                     content |-> c.content,
                     file_hash |-> IF c.file_hash # NoHash THEN c.file_hash
                                   ELSE calculate_sha1(c.file_path),
                     faiss_index |-> FaissIdx(base, i - 1)]
         IN InsertRows((rows \ old) \cup {row},
                       orph \cup {r.faiss_index : r \in old},
                       cs, i + 1, base)

BatchPaths(cs) == {cs[i].file_path : i \in 1..Len(cs)}

FirstOf(cs, p) == CHOOSE i \in 1..Len(cs) :
    cs[i].file_path = p /\ \A j \in 1..(i - 1) : cs[j].file_path # p

\* file_chunks[path] = {'hash': hash of the path's first chunk, 'count': chunks of the path}
FileChunksCount(cs, p) == Cardinality({i \in 1..Len(cs) : cs[i].file_path = p})

FileHashRecords(cs) ==
    {[file_path |-> p,
      file_hash |-> IF cs[FirstOf(cs, p)].file_hash # NoHash THEN cs[FirstOf(cs, p)].file_hash
                    ELSE calculate_sha1(p),
      chunk_count |-> FileChunksCount(cs, p)] : p \in BatchPaths(cs)}

UpsertFileHashes(fh, cs) ==
    {h \in fh : h.file_path \notin BatchPaths(cs)} \cup FileHashRecords(cs)

\* the size of the index read after the batch was added to it
current_faiss_size_after_add(ix, cs) == Len(ix) + Len(cs)

\* current_faiss_size = self.index.ntotal, read before self.index.add
current_faiss_size(ix, cs) == Len(ix)

\* VectorStore.add_chunks(cs, encode(cs)) applied to a store s = [chunks,
\* file_hashes, index, orphaned, removed].
add_chunks(s, cs) ==
    LET ins == InsertRows(s.chunks, s.orphaned, cs, 1, current_faiss_size(s.index, cs))
    IN [chunks |-> ins.rows,
        file_hashes |-> UpsertFileHashes(s.file_hashes, cs),
        index |-> IndexAdd(s.index, [i \in 1..Len(cs) |-> Encode(cs[i].content)]),
        orphaned |-> ins.orph,
        removed |-> s.removed \ BatchPaths(cs)]

RowsOfPath(rows, p) == {r \in rows : r.file_path = p}

\* a removal that leaves the chunk rows in the table
DeleteChunkRowsNone(rows, p) == rows

\* DELETE FROM chunks WHERE file_path = ?
DeleteChunkRows(rows, p) == rows \ RowsOfPath(rows, p)

\* a removal that leaves the file-hash record in the table
DeleteFileHashNone(fh, p) == fh

\* DELETE FROM file_hashes WHERE file_path = ?
DeleteFileHash(fh, p) == {h \in fh : h.file_path # p}

\* a removal of the rows of the file, under any spelling of its path
remove_file_chunks_any_spelling(s, p) ==
    [chunks |-> {r \in s.chunks : r.file_path.file # p.file},
     file_hashes |-> {h \in s.file_hashes : h.file_path.file # p.file},
     index |-> s.index,
     orphaned |-> s.orphaned \cup {r.faiss_index : r \in RowsOfPath(s.chunks, p)},
     removed |-> s.removed \cup {p}]

\* VectorStore.remove_file_chunks(p) applied to a store s; the index is untouched.
remove_file_chunks(s, p) ==
    [chunks |-> DeleteChunkRows(s.chunks, p),
     file_hashes |-> DeleteFileHash(s.file_hashes, p),
     index |-> s.index,
     orphaned |-> s.orphaned \cup {r.faiss_index : r \in RowsOfPath(s.chunks, p)},
     removed |-> s.removed \cup {p}]

Store == [chunks |-> chunks, file_hashes |-> file_hashes, index |-> index,
          orphaned |-> orphaned, removed |-> removed]

SetStore(s) ==
    /\ chunks' = s.chunks
    /\ file_hashes' = s.file_hashes
    /\ index' = s.index
    /\ orphaned' = s.orphaned
    /\ removed' = s.removed

\* ------------------------------------------------------------------ search
NoPattern == ""
Queries == {"foo"}
SearchTypes == {"semantic", "symbol_exact", "fuzzy_symbol", "text"}

Chars(s) ==
    CASE s = "foo" -> <<"f", "o", "o">>
      [] s = "fo" -> <<"f", "o">>
      [] s = "def" -> <<"d", "e", "f">>
      [] s = "bar" -> <<"b", "a", "r">>
      [] s = "file_overview" -> <<"f", "i", "l", "e", "_", "o", "v", "e", "r", "v", "i", "e", "w">>
      [] s = "a.py" -> <<"a", ".", "p", "y">>
      [] s = "n.md" -> <<"n", ".", "m", "d">>
      [] OTHER -> <<>>

StartsWith(s, q) == Len(q) <= Len(s) /\ SubSeq(s, 1, Len(q)) = q

Contains(s, q) == \E i \in 0..(Len(s) - Len(q)) : SubSeq(s, i + 1, i + Len(q)) = q

\* query_idx after scanning the symbol's characters from position i
RECURSIVE SubseqScan(_, _, _, _)
SubseqScan(s, q, i, query_idx) ==
    IF i > Len(s) THEN query_idx
    ELSE IF query_idx < Len(q) /\ s[i] = q[query_idx + 1]
         THEN SubseqScan(s, q, i + 1, query_idx + 1)
         ELSE SubseqScan(s, q, i + 1, query_idx)

\* a comparison that keeps the case of the characters
lower_keep(cs) == cs

\* str.lower(), on the characters of a name
lower(cs) == [i \in 1..Len(cs) |-> IF cs[i] = "F" THEN "f" ELSE IF cs[i] = "O" THEN "o" ELSE cs[i]]

\* FuzzySymbolSearch.fuzzy_match_score on the characters of the two names,
\* in hundredths
fuzzy_match_chars(query, symbol) ==
    LET q == lower(query)
        s == lower(symbol)
    IN IF q = s THEN 100
       ELSE IF StartsWith(s, q) THEN 90
       ELSE IF Contains(s, q) THEN 70
       ELSE IF SubseqScan(s, q, 1, 0) = Len(q) THEN 50
       ELSE 0

\* FuzzySymbolSearch.fuzzy_match_score, in hundredths
fuzzy_match_score(query, symbol) == fuzzy_match_chars(Chars(query), Chars(symbol))

default_min_score == 50

\* `file_pattern in file_path` / file_path LIKE %pattern%
PatternIn(pat, p) == p.file = pat

\* fnmatch(file, file_pattern or "*.py")
GlobMatch(f, pat) == IF pat = NoPattern THEN Suffix(f) = ".py" ELSE f = pat

\* Inner product of the normalised vectors, in hundredths: the share of
\* tokens the two embedded texts have in common.
Tokens(v) == {v[2][i] : i \in 1..Len(v[2])}

Score(qv, v) ==
    LET n == Cardinality(Tokens(qv) \cap Tokens(v))
    IN (n * n * 100) \div (Cardinality(Tokens(qv)) * Cardinality(Tokens(v)))

\* the score of every row of the index against the query vector
RECURSIVE Scores(_, _, _)
Scores(ix, qv, i) ==
    IF i > Len(ix) THEN <<>> ELSE <<Score(qv, ix[i])>> \o Scores(ix, qv, i + 1)

\* the n best of the rows cands, best first; sc[i + 1] is the score of row i
RECURSIVE BestFirst(_, _, _)
BestFirst(sc, cands, n) ==
    IF n = 0 \/ cands = {} THEN <<>>
    ELSE LET best == CHOOSE i \in cands : \A j \in cands :
                        \/ sc[i + 1] > sc[j + 1]
                        \/ sc[i + 1] = sc[j + 1] /\ i <= j
         IN <<[idx |-> best, score |-> sc[best + 1]]>> \o BestFirst(sc, cands \ {best}, n - 1)

\* index.search(query, n): the n best rows of the index, best first; the
\* scores are bound so that they are computed once
FaissSearch(ix, cands, qv, n) ==
    CHOOSE hits \in {BestFirst(sc, cands, n) : sc \in {Scores(ix, qv, 1)}} : TRUE

RowResult(r, score, hit) ==
    [chunk_id |-> r.chunk_id, file_path |-> r.file_path, symbol_name |-> r.symbol_name,
     chunk_type |-> r.chunk_type, line_start |-> r.line_start,
     relevance_score |-> score, hit |-> hit]

\* a search that returns every surviving hit
TruncateNone(results, top_k) == results

\* results[:top_k]
Truncate(results, top_k) == SubSeq(results, 1, Min(top_k, Len(results)))

\* the loop of VectorStore.search over the hits of the index: the row of each
\* hit is looked up, hits without a row and rows that do not match
\* file_pattern are skipped
ResolveHits(rows, hits, top_k, pat) ==
    LET rowOf(h) == CHOOSE r \in rows : r.faiss_index = h.idx
        keep(h) == /\ \E r \in rows : r.faiss_index = h.idx
                   /\ (pat = NoPattern \/ PatternIn(pat, rowOf(h).file_path))
        kept == SelectSeq(hits, keep)
        results == [i \in 1..Len(kept) |-> RowResult(rowOf(kept[i]), kept[i].score, kept[i].idx)]
    IN Truncate(results, top_k)

\* VectorStore.search(encode(query), top_k, file_pattern); the hits are bound
\* so that index.search is computed once
VectorStore_search(rows, ix, query, top_k, pat) ==
    IF Len(ix) = 0 THEN <<>>
    ELSE CHOOSE out \in
           {ResolveHits(rows, hits, top_k, pat) :
              hits \in {FaissSearch(ix, 0..(Len(ix) - 1), Encode(<<query>>),
                                    Min(top_k * 2, Len(ix)))}} : TRUE

SymbolScore(query, fuzzy, r) ==
    IF fuzzy THEN fuzzy_match_score(query, r.symbol_name)
    ELSE IF Chars(query) = Chars(r.symbol_name) THEN 100 ELSE 0

\* results.sort(key=relevance_score, reverse=True): stable, rows in table order
RECURSIVE RankRows(_, _, _)
RankRows(cands, query, fuzzy) ==
    IF cands = {} THEN <<>>
    ELSE LET best == CHOOSE r \in cands : \A o \in cands :
                        \/ SymbolScore(query, fuzzy, r) > SymbolScore(query, fuzzy, o)
                        \/ /\ SymbolScore(query, fuzzy, r) = SymbolScore(query, fuzzy, o)
                           /\ r.faiss_index <= o.faiss_index
         IN <<RowResult(best, SymbolScore(query, fuzzy, best), -1)>>
              \o RankRows(cands \ {best}, query, fuzzy)

\* FuzzySymbolSearch.search_symbols as EnhancedSearchManager calls it
\* (symbol_type None, min_score left at its default)
search_symbols(rows, query, pat, fuzzy, max_results) ==
    LET cands == {r \in rows :
                    /\ pat = NoPattern \/ PatternIn(pat, r.file_path)
                    /\ IF fuzzy THEN fuzzy_match_score(query, r.symbol_name) >= default_min_score
                       ELSE Chars(query) = Chars(r.symbol_name)}
        ranked == RankRows(cands, query, fuzzy)
    IN SubSeq(ranked, 1, Min(max_results, Len(ranked)))

\* the characters of line i of file f: a declaration in a Python file
LineChars(f, i) ==
    IF Suffix(f) \in python_extensions THEN <<"d", "e", "f", " ">> \o Chars(disk[f][i])
    ELSE Chars(disk[f][i])

MatchesInFile(f, query) ==
    LET content == disk[f]
        hit(i) == Contains(LineChars(f, i), Chars(query))
        RECURSIVE Lines(_)
        Lines(i) == IF i > Len(content) THEN <<>>
                    ELSE (IF hit(i) THEN <<[file |-> Rel(f), line |-> i]>> ELSE <<>>) \o Lines(i + 1)
    IN IF CanOpen(content) THEN Lines(1) ELSE <<>>

RECURSIVE WalkMatches(_, _, _)
WalkMatches(fs, query, pat) ==
    IF fs = <<>> THEN <<>>
    ELSE (IF GlobMatch(Head(fs), pat) THEN MatchesInFile(Head(fs), query) ELSE <<>>)
           \o WalkMatches(Tail(fs), query, pat)

\* `if len(results) >= max_results: return results`, tested after each
\* append: the first match is always collected
StopAfter(max_results) == IF max_results < 1 THEN 1 ELSE max_results

\* TextSearcher.search_in_files, converted to results by enhanced_search
search_in_files(query, pat, max_results) ==
    LET all == WalkMatches(FileOrder, query, pat)
        found == SubSeq(all, 1, Min(StopAfter(max_results), Len(all)))
    IN [i \in 1..Len(found) |->
          [chunk_id |-> <<"text", i - 1>>, file_path |-> found[i].file, symbol_name |-> "",
           chunk_type |-> "text_match", line_start |-> found[i].line,
           relevance_score |-> 100, hit |-> -1]]

\* SemanticSearchEngine.search: dispatch on search_type
engine_search(search_type, query, max_results, pat) ==
    CASE search_type = "semantic" -> VectorStore_search(chunks, index, query, max_results, pat)
      [] search_type = "fuzzy_symbol" -> search_symbols(chunks, query, pat, TRUE, max_results)
      [] search_type = "symbol_exact" -> search_symbols(chunks, query, pat, FALSE, max_results)
      [] search_type = "text" -> search_in_files(query, pat, max_results)
      [] OTHER -> <<>>

\* --------------------------------------------------------------- the engine
NoResponse == [op |-> "none"]

\* Python's None: an argument that was not given, and what a function with a
\* bare `return` hands back
None == -1

IdleTask == [op |-> "idle", pc |-> "idle", paths |-> <<>>, stored |-> {},
             given |-> 0, needing |-> 0, updated |-> 0, total |-> 0]

SeqTasks == {"t1"}

\* lists of paths a caller hands to batch_update_files
BatchArgs ==
    {<<Rel("a.py")>>, <<Abs("a.py")>>, <<Abs("a.py"), Abs("n.md")>>}

\* a comparison that takes a path without a record for an unchanged one
has_file_changed_if_recorded(fh, p) ==
    LET current_hash == calculate_sha1(p)
    IN IF current_hash = NoHash THEN TRUE
       ELSE \E h \in fh : h.file_path = p /\ h.file_hash # current_hash

\* VectorStore.has_file_changed
has_file_changed(fh, p) ==
    LET current_hash == calculate_sha1(p)
    IN IF current_hash = NoHash THEN TRUE
       ELSE IF \A h \in fh : h.file_path # p THEN TRUE
       ELSE \E h \in fh : h.file_path = p /\ h.file_hash # current_hash

\* a filter that hands every given path on
get_all_files(fh, ps) == ps

\* VectorStore.get_files_needing_update
get_files_needing_update(fh, ps) ==
    LET changed(p) == has_file_changed(fh, p)
    IN SelectSeq(ps, changed)

\* vectors the call would add if it re-indexed every file it names
RECURSIVE Cost(_, _)
Cost(op, ps) ==
    CASE op = "index" -> Len(FlattenChunks(get_code_files))
      [] op = "update" -> Len(process_file(JoinWorkingDir(ps[1])))
      [] op = "batch" -> IF ps = <<>> THEN 0
                         ELSE Len(process_file(Head(ps))) + Cost(op, Tail(ps))
      [] OTHER -> 0

\* hashes the store holds for the file named by p, under any spelling of its path
StoredHashes(rows, p) == {r.file_hash : r \in {x \in rows : x.file_path.file = p.file}}

\* an operation that does not wait for the lock
LockAdmitsAlways(t) == TRUE

\* asyncio.Lock: `async with self._processing_lock` enters at once when the
\* lock is free and suspends the task otherwise
LockAdmits(t) == lock = "free"

Finish(t, resp) ==
    /\ task' = [task EXCEPT ![t] = IdleTask]
    /\ lock' = "free"
    /\ response' = resp

Proceed(t, rec) ==
    /\ task' = [task EXCEPT ![t] = rec]
    /\ lock' = t
    /\ response' = NoResponse

NoEmbedding == embedCalls' = 0

\* restarts the record of removed paths at the removal a call is about to make
Fresh(s) == [s EXCEPT !.removed = {}]

\* an initialize() that flips the ready flag
ReadyToggled(was) == ~was

\* self._is_initialized = True
ReadyAfterInitialize(was) == TRUE

\* initialize(): returns at once on a ready engine; otherwise loads the
\* embedding model and marks the engine ready.  get_stats()["indexed"] is
\* always True, so the first full index is never run.
Initialize ==
    /\ initialized' = ReadyAfterInitialize(initialized)
    /\ response' = [op |-> "initialize", loaded |-> ~initialized]
    /\ NoEmbedding
    /\ UNCHANGED <<disk, lock, task, chunks, file_hashes, index, orphaned, removed>>

\* update_file inside the lock, from the existence check to remove_file_chunks
EnterUpdate(t, p) ==
    LET abs_path == JoinWorkingDir(p)
        current_hash == calculate_sha1(abs_path)
        stored == StoredHashes(chunks, p)
    IN IF disk[abs_path.file] = NoFile
       THEN /\ SetStore(remove_file_chunks(Fresh(Store), p))
            /\ Finish(t, [op |-> "update", path |-> p, branch |-> "deleted", stored |-> stored, returned |-> None])
       ELSE \/ /\ \E r \in RowsOfPath(chunks, p) : r.file_hash = current_hash
               /\ Finish(t, [op |-> "update", path |-> p, branch |-> "unchanged", stored |-> stored, returned |-> None])
               /\ UNCHANGED <<chunks, file_hashes, index, orphaned, removed>>
            \/ /\ \/ RowsOfPath(chunks, p) = {}
                  \/ \E r \in RowsOfPath(chunks, p) : r.file_hash # current_hash
               /\ SetStore(remove_file_chunks(Fresh(Store), p))
               /\ Proceed(t, [IdleTask EXCEPT !.op = "update", !.pc = "process",
                                              !.paths = <<p>>, !.stored = stored])

\* index_codebase inside the lock, before the first file is processed
EnterIndex(t) ==
    /\ Proceed(t, [IdleTask EXCEPT !.op = "index", !.pc = "locked"])
    /\ UNCHANGED <<chunks, file_hashes, index, orphaned, removed>>

\* batch_update_files inside the lock: get_files_needing_update and the early return
EnterBatch(t, ps) ==
    /\ LET files_needing_update == get_files_needing_update(file_hashes, ps)
       IN IF files_needing_update = <<>>
          THEN Finish(t, [op |-> "batch", paths |-> ps, updated_files |-> 0,
                          skipped_files |-> Len(ps), total_chunks |-> 0])
          ELSE Proceed(t, [IdleTask EXCEPT !.op = "batch", !.pc = "loop",
                                           !.paths = files_needing_update,
                                           !.given = Len(ps),
                                           !.needing = Len(files_needing_update)])
    /\ UNCHANGED <<chunks, file_hashes, index, orphaned, removed>>

\* VectorStore.cleanup_deleted_files: remove_file_chunks for every indexed
\* path that is not in existing_files
RECURSIVE RemoveAll(_, _)
RemoveAll(s, ps) ==
    IF ps = {} THEN s
    ELSE LET p == CHOOSE x \in ps : TRUE
         IN RemoveAll(remove_file_chunks(s, p), ps \ {p})

IndexedPaths(rows) == {r.file_path : r \in rows}

deleted_files(rows, existing_files) == IndexedPaths(rows) \ existing_files

cleanup_deleted_files(s, existing_files) ==
    RemoveAll(s, deleted_files(s.chunks, existing_files))

total_removed(s, existing_files) ==
    Cardinality({r \in s.chunks : r.file_path \in deleted_files(s.chunks, existing_files)})

\* cleanup_index inside the lock: it awaits nothing, so it runs to its end
EnterCleanup(t) ==
    LET existing_files == {get_code_files[i] : i \in 1..Len(get_code_files)}
    IN /\ \E s \in {cleanup_deleted_files(Fresh(Store), existing_files)} : SetStore(s)
       /\ Finish(t, [op |-> "cleanup",
                     removed_chunks |-> total_removed(Store, existing_files),
                     existing_files |-> Cardinality(existing_files)])

\* the operation from the acquisition of the lock to its first await
Enter(t, op, ps) ==
    /\ Len(index) + Cost(op, ps) <= MaxVectors
    /\ NoEmbedding
    /\ CASE op = "update" -> EnterUpdate(t, ps[1])
         [] op = "index" -> EnterIndex(t)
         [] op = "batch" -> EnterBatch(t, ps)
         [] op = "cleanup" -> EnterCleanup(t)

\* A caller starts index_codebase, update_file, batch_update_files or
\* cleanup_index.  update_file returns at once on an engine that is not
\* initialized; the others initialize it.  The call then takes the lock, or
\* waits for it.
Call(t, op, ps) ==
    /\ task[t].op = "idle"
    /\ IF op = "update" /\ ~initialized
       THEN /\ response' = [op |-> "update", path |-> ps[1], branch |-> "not_ready", stored |-> {}, returned |-> None]
            /\ NoEmbedding
            /\ UNCHANGED <<initialized, lock, task, chunks, file_hashes, index, orphaned, removed>>
       ELSE /\ initialized' = TRUE
            /\ IF LockAdmits(t)
               THEN Enter(t, op, ps)
               ELSE /\ task' = [task EXCEPT ![t] = [IdleTask EXCEPT !.op = op, !.pc = "wait",
                                                                    !.paths = ps]]
                    /\ response' = NoResponse
                    /\ NoEmbedding
                    /\ UNCHANGED <<lock, chunks, file_hashes, index, orphaned, removed>>
    /\ UNCHANGED disk

\* a waiting task is given the lock
Acquire(t) ==
    /\ task[t].pc = "wait"
    /\ LockAdmits(t)
    /\ Enter(t, task[t].op, task[t].paths)
    /\ UNCHANGED <<disk, initialized>>

\* update_file, from _process_file to add_chunks
UpdateReindex(t) ==
    /\ task[t].op = "update" /\ task[t].pc = "process"
    /\ \E p \in {task[t].paths[1]} : \E cs \in {process_file(JoinWorkingDir(p))} :
          /\ IF cs # <<>>
             THEN /\ embedCalls' = 1
                  /\ \E s \in {add_chunks(Store, cs)} : SetStore(s)
             ELSE /\ NoEmbedding
                  /\ UNCHANGED <<chunks, file_hashes, index, orphaned, removed>>
          /\ Finish(t, [op |-> "update", path |-> p, branch |-> "reindexed",
                        stored |-> task[t].stored, returned |-> None])
    /\ UNCHANGED <<disk, initialized>>

\* index_codebase: the walk over _get_code_files, _generate_embeddings and add_chunks
IndexRun(t) ==
    /\ task[t].op = "index" /\ task[t].pc = "locked"
    /\ \E all_chunks \in {FlattenChunks(get_code_files)} :
          /\ IF all_chunks # <<>>
             THEN /\ embedCalls' = 1
                  /\ \E s \in {add_chunks(Store, all_chunks)} : SetStore(s)
             ELSE /\ NoEmbedding
                  /\ UNCHANGED <<chunks, file_hashes, index, orphaned, removed>>
          /\ Finish(t, [op |-> "index", chunks |-> Len(all_chunks)])
    /\ UNCHANGED <<disk, initialized>>

\* a loop that ends at the first file that yields no chunk
NextFilesAbort(paths, cs) == IF cs = <<>> THEN <<>> ELSE Tail(paths)

\* `for file_path in files_needing_update:` with the try/except inside the
\* loop body: the files still to do after this one, whatever it yielded
NextFiles(paths, cs) == Tail(paths)

\* batch_update_files, one iteration of the loop over files_needing_update
BatchFile(t) ==
    /\ task[t].op = "batch" /\ task[t].pc = "loop"
    /\ \E p \in {Head(task[t].paths)} : \E cs \in {process_file(p)} :
       LET s0 == IF task[t].needing = Len(task[t].paths) THEN Fresh(Store) ELSE Store
           s1 == remove_file_chunks(s0, p)
           updated == IF cs # <<>> THEN task[t].updated + 1 ELSE task[t].updated
           total == task[t].total + Len(cs)
       IN /\ IF cs # <<>>
             THEN /\ embedCalls' = 1
                  /\ \E s \in {add_chunks(s1, cs)} : SetStore(s)
             ELSE /\ NoEmbedding
                  /\ SetStore(s1)
          /\ IF NextFiles(task[t].paths, cs) = <<>>
             THEN Finish(t, [op |-> "batch", updated_files |-> updated,
                             skipped_files |-> task[t].given - task[t].needing,
                             total_chunks |-> total])
             ELSE Proceed(t, [task[t] EXCEPT !.paths = NextFiles(task[t].paths, cs),
                                             !.updated = updated, !.total = total])
    /\ UNCHANGED <<disk, initialized>>

\* a read that waits until no indexing operation holds the lock
ReadAdmitsLockFree == lock = "free"

\* search, get_stats and get_indexing_status have no `async with
\* self._processing_lock`
ReadAdmits == TRUE

\* SemanticSearchEngine.search(request): takes no lock; initializes the
\* engine if needed.  request.min_score is not handed to the searchers.
SearchRequest(search_type, query, max_results, pat, min_score) ==
    /\ ReadAdmits
    /\ initialized' = TRUE
    /\ response' = [op |-> "search", search_type |-> search_type, query |-> query,
                    max_results |-> max_results, file_pattern |-> pat,
                    min_score |-> min_score,
                    results |-> engine_search(search_type, query, max_results, pat)]
    /\ NoEmbedding
    /\ UNCHANGED <<disk, lock, task, chunks, file_hashes, index, orphaned, removed>>

\* a request that leaves min_score at its default
Search(search_type, query, max_results, pat) ==
    SearchRequest(search_type, query, max_results, pat, default_min_score)

\* VectorStore.get_stats()["faiss_vectors"]
faiss_vectors == Len(index)

\* SemanticSearchEngine.get_stats: reads the store and the ready flag
GetStats ==
    /\ ReadAdmits
    /\ response' = [op |-> "stats",
                    total_chunks |-> Cardinality(chunks),
                    total_files |-> Cardinality({r.file_path : r \in chunks}),
                    tracked_files |-> Cardinality(file_hashes),
                    faiss_vectors |-> faiss_vectors,
                    initialized |-> initialized]
    /\ NoEmbedding
    /\ UNCHANGED <<disk, initialized, lock, task, chunks, file_hashes, index, orphaned, removed>>

\* SemanticSearchEngine.get_indexing_status: get_indexed_files and get_stats
GetIndexingStatus ==
    /\ ReadAdmits
    /\ response' = [op |-> "status",
                    indexed_files |-> Cardinality(file_hashes),
                    faiss_vectors |-> faiss_vectors,
                    total_chunks |-> Cardinality(chunks)]
    /\ NoEmbedding
    /\ UNCHANGED <<disk, initialized, lock, task, chunks, file_hashes, index, orphaned, removed>>

\* SymbolMatcher.extract_symbols: the declarations of a file of a language
\* with symbol patterns
extract_symbols(f, content) == IF Suffix(f) \in python_extensions THEN content ELSE <<>>

\* SemanticSearchEngine.list_symbols_in_file: reads the file from the disk
ListSymbolsInFile(f) ==
    /\ ReadAdmits
    /\ response' = IF ~CanOpen(disk[f])
                   THEN [op |-> "symbols", file |-> f, error |-> TRUE, symbols |-> <<>>]
                   ELSE [op |-> "symbols", file |-> f, error |-> FALSE,
                         symbols |-> extract_symbols(f, disk[f])]
    /\ NoEmbedding
    /\ UNCHANGED <<disk, initialized, lock, task, chunks, file_hashes, index, orphaned, removed>>

\* ------------------------------------------------------------ symbol reader
\* A line of a file, as the bounds detector sees it: its leading whitespace
\* and whether it is blank, a comment (#), a decorator (@) or other code.
LineKinds == {"code", "blank", "comment", "decorator"}

\* the lines of file f: a Python file holds one declaration per line, at
\* indentation 0
FileLines(f) == [i \in 1..Len(disk[f]) |-> [indent |-> 0, kind |-> "code", text |-> disk[f][i]]]

\* a detector that starts at the declaration line
DecoratorStartNone(lines, start) == start

\* `while start - 1 >= 0 and lines[start - 1].lstrip().startswith('@')`
RECURSIVE DecoratorStart(_, _)
DecoratorStart(lines, start) ==
    IF start - 1 >= 0 /\ lines[start].kind = "decorator"
    THEN DecoratorStart(lines, start - 1)
    ELSE start

\* the loop `for i in range(start_idx + 1, n)` of find_python_bounds, from i
RECURSIVE ScanEnd(_, _, _)
ScanEnd(lines, i, base_indent) ==
    IF i >= Len(lines) THEN Len(lines) - 1
    ELSE IF lines[i + 1].kind \in {"blank", "comment"} THEN ScanEnd(lines, i + 1, base_indent)
    ELSE IF lines[i + 1].indent <= base_indent THEN i - 1
    ELSE ScanEnd(lines, i + 1, base_indent)

\* SymbolBoundsDetector.find_python_bounds(lines, start_idx): 0-based,
\* inclusive (start, end)
find_python_bounds(lines, start_idx) ==
    <<DecoratorStart(lines, start_idx),
      ScanEnd(lines, start_idx + 1, lines[start_idx + 1].indent)>>

\* A line of a brace-language file is the sequence of its characters that
\* matter to the brace scans: '{', '}', ';', ')' and any other character "x".
BraceChars == {"{", "}", ";", ")", "x"}

\* line.count(ch)
CountChar(line, ch) == Cardinality({j \in 1..Len(line) : line[j] = ch})

\* the brace_stack after the line on which the first '{' is found:
\* ['{'] * line.count('{'), cut by line.count('}') entries from its end
OpeningDepth(line) ==
    LET opens == CountChar(line, "{")
        closes == CountChar(line, "}")
    IN IF closes > 0 THEN (IF opens > closes THEN opens - closes ELSE 0) ELSE opens

\* `for char in line:` on a line after the opening one: append on '{', pop
\* on '}' if the stack is not empty; from character j with the stack at depth
RECURSIVE DepthAfter(_, _, _)
DepthAfter(line, j, depth) ==
    IF j > Len(line) THEN depth
    ELSE DepthAfter(line, j + 1,
                    IF line[j] = "{" THEN depth + 1
                    ELSE IF line[j] = "}" /\ depth > 0 THEN depth - 1
                    ELSE depth)

\* line.strip().endswith(')')
EndsWithParen(line) == Len(line) > 0 /\ line[Len(line)] = ")"

\* the loop `for i in range(start_idx, n)` of find_javascript_bounds, from
\* 0-based line i: the index of the line it returns on
RECURSIVE BraceScan(_, _, _, _)
BraceScan(lines, i, opened, depth) ==
    IF i >= Len(lines) THEN Len(lines) - 1
    ELSE LET line == lines[i + 1]
         IN IF ~opened
            THEN IF CountChar(line, "{") > 0
                 THEN IF OpeningDepth(line) = 0 THEN i
                      ELSE BraceScan(lines, i + 1, TRUE, OpeningDepth(line))
                 ELSE IF CountChar(line, ";") > 0 \/ EndsWithParen(line) THEN i
                      ELSE BraceScan(lines, i + 1, FALSE, 0)
            ELSE IF DepthAfter(line, 1, depth) = 0 THEN i
                 ELSE BraceScan(lines, i + 1, TRUE, DepthAfter(line, 1, depth))

\* SymbolBoundsDetector.find_javascript_bounds(lines, start_idx): 0-based,
\* inclusive (start, end)
find_javascript_bounds(lines, start_idx) ==
    <<start_idx, BraceScan(lines, start_idx, FALSE, 0)>>

\* the column of the first '{' of a line that has one
FirstBrace(line) == CHOOSE j \in 1..Len(line) : line[j] = "{" /\ \A k \in 1..(j - 1) : line[k] # "{"

\* The `while pos < len(content)` loop of JSChunker._create_function_chunk
\* over the content made of these lines, from column j of line i (1-based):
\* the 1-based line of the '}' that brings brace_count to 0, or the last
\* line when the content ends first
RECURSIVE ChunkerScan(_, _, _, _)
ChunkerScan(lines, i, j, brace_count) ==
    IF i > Len(lines) THEN Len(lines)
    ELSE IF j > Len(lines[i]) THEN ChunkerScan(lines, i + 1, 1, brace_count)
    ELSE IF lines[i][j] = "{" THEN ChunkerScan(lines, i, j + 1, brace_count + 1)
    ELSE IF lines[i][j] = "}"
         THEN IF brace_count - 1 = 0 THEN i
              ELSE ChunkerScan(lines, i, j + 1, brace_count - 1)
    ELSE ChunkerScan(lines, i, j + 1, brace_count)

\* line_end of the chunk JSChunker makes for the declaration on 0-based line
\* start_idx whose pattern match ends at the first '{' of that line
JSChunker_line_end(lines, start_idx) ==
    ChunkerScan(lines, start_idx + 1, FirstBrace(lines[start_idx + 1]), 0)

\* SymbolReader.detect_language
detect_language(f) == IF Suffix(f) \in python_extensions THEN "python" ELSE "text"

\* SymbolBoundsDetector.find_symbol_bounds
find_symbol_bounds(lines, start_idx, language) ==
    IF language = "python" THEN find_python_bounds(lines, start_idx)
    ELSE <<start_idx, start_idx>>

\* a symbol_name that was not given (or is empty)
NoSymbol == ""

\* SymbolReader.find_symbol_in_database(symbol_name, file_path): the rows
\* with that name stored under exactly that path, ORDER BY line_start
RECURSIVE ByLineStart(_)
ByLineStart(rows) ==
    IF rows = {} THEN <<>>
    ELSE LET r == CHOOSE x \in rows : \A y \in rows : x.line_start <= y.line_start
         IN <<r>> \o ByLineStart({y \in rows : y.line_start # r.line_start})

find_symbol_in_database(symbol_name, p) ==
    ByLineStart({r \in chunks : r.symbol_name = symbol_name /\ r.file_path = p})

\* the fallback of read_code_content: the 0-based indices of the lines that
\* declare symbol_name
RECURSIVE PatternMatches(_, _, _)
PatternMatches(lines, symbol_name, i) ==
    IF i > Len(lines) THEN <<>>
    ELSE (IF lines[i].kind = "code" /\ lines[i].text = symbol_name THEN <<i - 1>> ELSE <<>>)
           \o PatternMatches(lines, symbol_name, i + 1)

ReadFailure(error) == [op |-> "read", success |-> FALSE, error |-> error]

\* the dictionary read_code_content returns for the selected lines
ReadSuccess(selected_lines, line_offset, mode) ==
    [op |-> "read", success |-> TRUE, content |-> selected_lines, mode |-> mode,
     start |-> line_offset, end |-> line_offset + Len(selected_lines) - 1,
     total_lines |-> Len(selected_lines)]

\* lines[start:end + 1] for 0-based start and end
Slice(lines, start, end) == SubSeq(lines, start + 1, Min(end + 1, Len(lines)))

\* the symbol branch of read_code_content once the matches are known: the
\* occurrence test, the bounds and the slice
ReadOccurrence(lines, starts, occurrence, language, mode) ==
    IF occurrence < 1 \/ occurrence > Len(starts) THEN ReadFailure("invalid_occurrence")
    ELSE LET start_idx == starts[occurrence]
         IN IF start_idx + 1 > Len(lines) THEN ReadFailure("exception")
            ELSE LET b == find_symbol_bounds(lines, start_idx, language)
                 IN ReadSuccess(Slice(lines, b[1], b[2]), b[1] + 1, mode)

\* a range test that does not look at the length of the file
InvalidRangeNoLength(start_line, end_line, n) ==
    start_line < 1 \/ end_line < 1 \/ start_line > end_line

\* `if start_line < 1 or end_line < 1 or end_line > len(lines) or
\* start_line > end_line`
InvalidRange(start_line, end_line, n) ==
    start_line < 1 \/ end_line < 1 \/ end_line > n \/ start_line > end_line

\* SymbolReader.read_code_content(file_path, start_line, end_line,
\* symbol_name, occurrence)
read_code_content(p, start_line, end_line, symbol_name, occurrence) ==
    IF disk[p.file] = NoFile THEN ReadFailure("not_found")
    ELSE IF disk[p.file] = Unreadable THEN ReadFailure("binary_file")
    ELSE LET lines == FileLines(p.file)
         IN IF start_line # None /\ end_line # None
            THEN IF InvalidRange(start_line, end_line, Len(lines))
                 THEN ReadFailure("invalid_range")
                 ELSE ReadSuccess(Slice(lines, start_line - 1, end_line - 1), start_line,
                                  "line_range")
            ELSE IF symbol_name # NoSymbol
            THEN LET db_results == find_symbol_in_database(symbol_name, p)
                     language == detect_language(p.file)
                 IN IF db_results # <<>>
                    THEN ReadOccurrence(lines,
                                        [i \in 1..Len(db_results) |-> db_results[i].line_start - 1],
                                        occurrence, language, "symbol_db")
                    ELSE LET symbol_matches == IF language = "python"
                                               THEN PatternMatches(lines, symbol_name, 1)
                                               ELSE <<>>
                         IN IF symbol_matches = <<>> THEN ReadFailure("symbol_not_found")
                            ELSE ReadOccurrence(lines, symbol_matches, occurrence,
                                                language, "symbol_pattern")
            ELSE ReadSuccess(lines, 1, "whole_file")

\* SemanticSearchEngine.read_symbol_content: takes no lock; initializes the
\* engine if needed and hands the request to the symbol reader
ReadSymbolContent(p, symbol_name, occurrence, start_line, end_line) ==
    /\ ReadAdmits
    /\ initialized' = TRUE
    /\ response' = [read_code_content(p, start_line, end_line, symbol_name, occurrence)
                      EXCEPT !.op = "read"] @@
                   [path |-> p, symbol_name |-> symbol_name, occurrence |-> occurrence,
                    start_line |-> start_line, end_line |-> end_line]
    /\ NoEmbedding
    /\ UNCHANGED <<disk, lock, task, chunks, file_hashes, index, orphaned, removed>>

\* ------------------------------------------------------------ the file system
WriteFile(f, content) ==
    /\ lock = "free"
    /\ disk[f] # content
    /\ disk' = [disk EXCEPT ![f] = content]
    /\ response' = NoResponse
    /\ NoEmbedding
    /\ UNCHANGED <<initialized, lock, task, chunks, file_hashes, index, orphaned, removed>>

DeleteFile(f) ==
    /\ lock = "free"
    /\ disk[f] # NoFile
    /\ disk' = [disk EXCEPT ![f] = NoFile]
    /\ response' = NoResponse
    /\ NoEmbedding
    /\ UNCHANGED <<initialized, lock, task, chunks, file_hashes, index, orphaned, removed>>

\* the file loses its read permission
Chmod(f) ==
    /\ lock = "free"
    /\ disk[f] \notin {NoFile, Unreadable}
    /\ disk' = [disk EXCEPT ![f] = Unreadable]
    /\ response' = NoResponse
    /\ NoEmbedding
    /\ UNCHANGED <<initialized, lock, task, chunks, file_hashes, index, orphaned, removed>>

\* -------------------------------------------------------------- specification
Init ==
    /\ disk = InitialDisk
    /\ initialized = FALSE
    /\ lock = "free"
    /\ task = [t \in Tasks |-> IdleTask]
    /\ chunks = {}
    /\ file_hashes = {}
    /\ index = <<>>
    /\ orphaned = {}
    /\ removed = {}
    /\ embedCalls = 0
    /\ response = NoResponse

\* one caller at a time, searching between and during its calls
Next ==
    \/ Initialize
    \/ \E t \in SeqTasks : Call(t, "index", <<>>)
    \/ \E t \in SeqTasks : Call(t, "cleanup", <<>>)
    \/ \E t \in SeqTasks, ps \in BatchArgs : Call(t, "batch", ps)
    \/ \E t \in SeqTasks, p \in Paths : Call(t, "update", <<p>>)
    \/ \E t \in SeqTasks : UpdateReindex(t)
    \/ \E t \in SeqTasks : IndexRun(t)
    \/ \E t \in SeqTasks : BatchFile(t)
    \/ \E st \in SearchTypes, q \in Queries, k \in 1..MaxTopK : Search(st, q, k, NoPattern)
    \/ \E f \in Edited : \E c \in ContentsOf(f) : WriteFile(f, c)
    \/ \E f \in Edited : DeleteFile(f)

Spec == Init /\ [][Next]_vars

\* concurrent callers
NextConc ==
    \/ Initialize
    \/ \E t \in Tasks : Call(t, "index", <<>>)
    \/ \E t \in Tasks : Call(t, "cleanup", <<>>)
    \/ \E t \in Tasks, ps \in BatchArgs : Call(t, "batch", ps)
    \/ \E t \in Tasks, p \in Paths : Call(t, "update", <<p>>)
    \/ \E t \in Tasks : Acquire(t)
    \/ \E t \in Tasks : UpdateReindex(t)
    \/ \E t \in Tasks : IndexRun(t)
    \/ \E t \in Tasks : BatchFile(t)
    \/ \E f \in Edited : \E c \in ContentsOf(f) : WriteFile(f, c)
    \/ \E f \in Edited : DeleteFile(f)

SpecConc == Init /\ [][NextConc]_vars

\* requests that use file_pattern and min_score
HighMinScore == 90

\* one caller, searching with file patterns and with a min_score of its own
NextRead ==
    \/ Initialize
    \/ \E t \in SeqTasks : Call(t, "index", <<>>)
    \/ \E t \in SeqTasks : Call(t, "cleanup", <<>>)
    \/ \E t \in SeqTasks, ps \in BatchArgs : Call(t, "batch", ps)
    \/ \E t \in SeqTasks, p \in Paths : Call(t, "update", <<p>>)
    \/ \E t \in SeqTasks : UpdateReindex(t)
    \/ \E t \in SeqTasks : IndexRun(t)
    \/ \E t \in SeqTasks : BatchFile(t)
    \/ \E k \in 1..MaxTopK, pat \in {NoPattern, "n.md"} :
          SearchRequest("semantic", "foo", k, pat, default_min_score)
    \/ \E ms \in {default_min_score, HighMinScore} :
          SearchRequest("fuzzy_symbol", "fo", MaxTopK, NoPattern, ms)
    \/ SearchRequest("symbol_exact", "foo", MaxTopK, NoPattern, default_min_score)
    \/ \E f \in Edited : \E c \in ContentsOf(f) : WriteFile(f, c)
    \/ \E f \in Edited : DeleteFile(f)

SpecRead == Init /\ [][NextRead]_vars

\* one caller of index_codebase and update_file, and every read-only operation
NextLock ==
    \/ Initialize
    \/ \E t \in SeqTasks : Call(t, "index", <<>>)
    \/ \E t \in SeqTasks, p \in Paths : Call(t, "update", <<p>>)
    \/ \E t \in SeqTasks : UpdateReindex(t)
    \/ \E t \in SeqTasks : IndexRun(t)
    \/ \E st \in SearchTypes : Search(st, "foo", 1, NoPattern)
    \/ GetStats
    \/ GetIndexingStatus
    \/ \E f \in Files : ListSymbolsInFile(f)
    \/ \E f \in Edited : DeleteFile(f)

SpecLock == Init /\ [][NextLock]_vars

\* one caller, indexing and reading the statistics
NextIndex ==
    \/ Initialize
    \/ GetStats
    \/ \E t \in SeqTasks : Call(t, "index", <<>>)
    \/ \E t \in SeqTasks : Call(t, "cleanup", <<>>)
    \/ \E t \in SeqTasks, ps \in BatchArgs : Call(t, "batch", ps)
    \/ \E t \in SeqTasks, p \in Paths : Call(t, "update", <<p>>)
    \/ \E t \in SeqTasks : UpdateReindex(t)
    \/ \E t \in SeqTasks : IndexRun(t)
    \/ \E t \in SeqTasks : BatchFile(t)
    \/ \E f \in Edited : \E c \in ContentsOf(f) : WriteFile(f, c)
    \/ \E f \in Edited : DeleteFile(f)

SpecIndex == Init /\ [][NextIndex]_vars

\* a project in which a.py declares foo alone, and the edit of a.py that puts
\* a declaration above foo
ExactDisk == [f \in Files |-> <<"foo">>]
MovedContent == <<"bar", "foo">>

InitExact ==
    /\ disk = ExactDisk
    /\ initialized = FALSE
    /\ lock = "free"
    /\ task = [t \in Tasks |-> IdleTask]
    /\ chunks = {}
    /\ file_hashes = {}
    /\ index = <<>>
    /\ orphaned = {}
    /\ removed = {}
    /\ embedCalls = 0
    /\ response = NoResponse

\* one caller keeping the index of that project up to date, and searching
\* for the symbol by its exact name
NextExact ==
    \/ Initialize
    \/ \E t \in SeqTasks : Call(t, "index", <<>>)
    \/ \E t \in SeqTasks : Call(t, "cleanup", <<>>)
    \/ \E t \in SeqTasks, p \in Paths : Call(t, "update", <<p>>)
    \/ \E t \in SeqTasks : UpdateReindex(t)
    \/ \E t \in SeqTasks : IndexRun(t)
    \/ \E k \in 1..MaxTopK : SearchRequest("symbol_exact", "foo", k, NoPattern, default_min_score)
    \/ WriteFile("a.py", MovedContent)
    \/ DeleteFile("a.py")

SpecExact == InitExact /\ [][NextExact]_vars

\* the names fuzzy_match_score is applied to: up to MaxLen characters
MaxLen == 3
Alphabet == {"f", "o", "F"}
Names == UNION {[1..n -> Alphabet] : n \in 0..MaxLen}

\* the arguments of a call of fuzzy_match_score
ScoreArgs == {[op |-> "args", query |-> q, symbol |-> c] : q \in Names, c \in Names}

InitFuzzy ==
    /\ disk = InitialDisk
    /\ initialized = FALSE
    /\ lock = "free"
    /\ task = [t \in Tasks |-> IdleTask]
    /\ chunks = {}
    /\ file_hashes = {}
    /\ index = <<>>
    /\ orphaned = {}
    /\ removed = {}
    /\ embedCalls = 0
    /\ response \in ScoreArgs

\* fuzzy_match_score(query, symbol) on the arguments drawn
ScoreCall ==
    /\ response.op = "args"
    /\ response' = [op |-> "fuzzy_match_score", query |-> response.query,
                    symbol |-> response.symbol,
                    score |-> fuzzy_match_chars(response.query, response.symbol)]
    /\ NoEmbedding
    /\ UNCHANGED <<disk, initialized, lock, task, chunks, file_hashes, index, orphaned, removed>>

\* fuzzy_match_score on a pair of names, and fuzzy searches of an index that
\* one caller builds
NextFuzzy ==
    \/ ScoreCall
    \/ \E t \in SeqTasks : Call(t, "index", <<>>)
    \/ \E t \in SeqTasks : IndexRun(t)
    \/ \E q \in {"fo", "foo"}, k \in 1..MaxTopK :
          SearchRequest("fuzzy_symbol", q, k, NoPattern, default_min_score)
    \/ \E f \in Edited : \E c \in ContentsOf(f) : WriteFile(f, c)

SpecFuzzy == InitFuzzy /\ [][NextFuzzy]_vars

\* one caller indexing a tree that is edited, and text searches of the tree
\* with every max_results from 0 to MaxTopK
NextText ==
    \/ Initialize
    \/ \E t \in SeqTasks : Call(t, "index", <<>>)
    \/ \E t \in SeqTasks, p \in Paths : Call(t, "update", <<p>>)
    \/ \E t \in SeqTasks : UpdateReindex(t)
    \/ \E t \in SeqTasks : IndexRun(t)
    \/ \E q \in {"def", "foo"}, k \in 0..MaxTopK, pat \in {NoPattern, "n.md"} :
          SearchRequest("text", q, k, pat, default_min_score)
    \/ \E f \in Edited : \E c \in ContentsOf(f) : WriteFile(f, c)
    \/ \E f \in Edited : DeleteFile(f)

SpecText == Init /\ [][NextText]_vars

\* the arguments of the read requests
MaxLine == 3
LineArgs == {None} \cup (0..MaxLine)
MaxOccurrence == 2

\* one caller indexing a tree that is edited, and reads of its files by
\* symbol, by line range and whole
NextReader ==
    \/ Initialize
    \/ \E t \in SeqTasks : Call(t, "index", <<>>)
    \/ \E t \in SeqTasks : IndexRun(t)
    \/ \E f \in Files, sym \in {NoSymbol, "foo"}, sl \in LineArgs, el \in LineArgs :
          ReadSymbolContent(Rel(f), sym, 1, sl, el)
    \/ \E p \in Paths, occ \in 0..MaxOccurrence : ReadSymbolContent(p, "foo", occ, None, None)
    \/ \E f \in Files : ListSymbolsInFile(f)
    \/ \E f \in Edited : \E c \in ContentsOf(f) : WriteFile(f, c)
    \/ \E f \in Edited : DeleteFile(f)

SpecReader == Init /\ [][NextReader]_vars

\* The engine of a tree whose files come and go: update_file, the symbol
\* reader and list_symbols_in_file are asked about files that may be missing.
NextMissing ==
    \/ Initialize
    \/ \E t \in SeqTasks : Call(t, "index", <<>>)
    \/ \E t \in SeqTasks : IndexRun(t)
    \/ \E t \in SeqTasks, p \in Paths : Call(t, "update", <<p>>)
    \/ \E t \in SeqTasks : UpdateReindex(t)
    \/ \E p \in Paths, sym \in {NoSymbol, "foo"} : ReadSymbolContent(p, sym, 1, None, None)
    \/ \E f \in Files : ListSymbolsInFile(f)
    \/ \E f \in Edited : \E c \in ContentsOf(f) : WriteFile(f, c)
    \/ \E f \in Files : DeleteFile(f)

SpecMissing == Init /\ [][NextMissing]_vars

\* the files find_python_bounds is applied to: up to MaxLines lines, each
\* blank, a comment, a decorator or code, at indentation 0 or 1
MaxLines == 4
Indents == {0, 1}
BoundsLines == [indent : Indents, kind : LineKinds]

\* the arguments of a call of find_python_bounds: the lines of a file and the
\* 0-based index of one of them
BoundsArgs(lines, start_idx) == [op |-> "bounds_args", lines |-> lines, start_idx |-> start_idx]

InitBounds ==
    /\ disk = InitialDisk
    /\ initialized = FALSE
    /\ lock = "free"
    /\ task = [t \in Tasks |-> IdleTask]
    /\ chunks = {}
    /\ file_hashes = {}
    /\ index = <<>>
    /\ orphaned = {}
    /\ removed = {}
    /\ embedCalls = 0
    /\ \E n \in 1..MaxLines : \E ls \in [1..n -> BoundsLines] : \E i \in 0..(n - 1) :
          response = BoundsArgs(ls, i)

\* find_python_bounds applied to the arguments drawn
BoundsCall ==
    /\ response.op = "bounds_args"
    /\ LET b == find_python_bounds(response.lines, response.start_idx)
       IN response' = [op |-> "bounds", lines |-> response.lines,
                       start_idx |-> response.start_idx, start |-> b[1], end |-> b[2]]
    /\ UNCHANGED <<disk, initialized, lock, task, chunks, file_hashes, index, orphaned,
                   removed, embedCalls>>

NextBounds == BoundsCall

SpecBounds == InitBounds /\ [][NextBounds]_vars

\* removed_count = cursor.rowcount of DELETE FROM chunks WHERE file_path = ?
removed_count(rows, p) == Cardinality(RowsOfPath(rows, p))

\* VectorStore.remove_file_chunks(p), called on the store
RemoveFileChunks(p) ==
    /\ lock = "free"
    /\ SetStore(remove_file_chunks(Store, p))
    /\ response' = [op |-> "remove", path |-> p, removed_count |-> removed_count(chunks, p)]
    /\ NoEmbedding
    /\ UNCHANGED <<disk, initialized, lock, task>>

\* The store of the project of a.py, indexed under its absolute path by
\* index_codebase and under a relative one by batch_update_files, with
\* removals of either path.
NextRemove ==
    \/ \E t \in SeqTasks : Call(t, "index", <<>>)
    \/ \E t \in SeqTasks : IndexRun(t)
    \/ \E t \in SeqTasks, ps \in {<<Rel("a.py")>>, <<Abs("n.md")>>} : Call(t, "batch", ps)
    \/ \E t \in SeqTasks : BatchFile(t)
    \/ \E p \in Paths : RemoveFileChunks(p)
    \/ WriteFile("a.py", MovedContent)

SpecRemove == InitExact /\ [][NextRemove]_vars

\* self.vector_index_path: the file the embedding index is written to
VectorIndexFile == "vectors.faiss"

\* a tree whose data directory holds no index file yet
PersistDisk == [f \in Files \cup {VectorIndexFile} |-> IF f \in Files THEN InitialDisk[f] ELSE <<>>]

InitPersist ==
    /\ disk = PersistDisk
    /\ initialized = FALSE
    /\ lock = "free"
    /\ task = [t \in Tasks |-> IdleTask]
    /\ chunks = {}
    /\ file_hashes = {}
    /\ index = <<>>
    /\ orphaned = {}
    /\ removed = {}
    /\ embedCalls = 0
    /\ response = NoResponse

\* a body of add_chunks that writes the index file before it commits
add_chunks_steps_write_first == <<"index_add", "write_index", "commit">>

\* the statements of add_chunks in the order of its body: self.index.add,
\* the INSERT OR REPLACE loops with conn.commit(), faiss.write_index
add_chunks_steps == <<"index_add", "commit", "write_index">>

\* index_codebase from the lock to its return, one statement of add_chunks
\* at a time: task[t].updated counts the statements done, task[t].total is
\* current_faiss_size
IndexStep(t) ==
    /\ task[t].op = "index" /\ task[t].pc = "locked"
    /\ LET all_chunks == FlattenChunks(get_code_files)
           done == task[t].updated
           step == add_chunks_steps[done + 1]
           base == IF step = "index_add" THEN Len(index) ELSE task[t].total
           ins == InsertRows(chunks, orphaned, all_chunks, 1, base)
       IN IF all_chunks = <<>>
          THEN /\ Finish(t, [op |-> "index", chunks |-> 0])
               /\ NoEmbedding
               /\ UNCHANGED <<disk, chunks, file_hashes, index, orphaned, removed>>
          ELSE /\ CASE step = "index_add" ->
                        /\ index' = IndexAdd(index, [i \in 1..Len(all_chunks) |->
                                                       Encode(all_chunks[i].content)])
                        /\ UNCHANGED <<disk, chunks, file_hashes, orphaned, removed>>
                    [] step = "commit" ->
                        /\ chunks' = ins.rows
                        /\ file_hashes' = UpsertFileHashes(file_hashes, all_chunks)
                        /\ orphaned' = ins.orph
                        /\ removed' = removed \ BatchPaths(all_chunks)
                        /\ UNCHANGED <<disk, index>>
                    [] step = "write_index" ->
                        /\ disk' = [disk EXCEPT ![VectorIndexFile] = index]
                        /\ UNCHANGED <<chunks, file_hashes, index, orphaned, removed>>
               /\ embedCalls' = IF done = 0 THEN 1 ELSE 0
               /\ IF done + 1 = Len(add_chunks_steps)
                  THEN Finish(t, [op |-> "index", chunks |-> Len(all_chunks)])
                  ELSE Proceed(t, [task[t] EXCEPT !.updated = done + 1, !.total = base])
    /\ UNCHANGED initialized

\* The process dies and is started again: what was in memory is gone,
\* metadata.db keeps what was committed, and _load_or_create_faiss_index
\* reads the index back from its file.
Crash ==
    /\ initialized' = FALSE
    /\ lock' = "free"
    /\ task' = [t \in Tasks |-> IdleTask]
    /\ index' = disk[VectorIndexFile]
    /\ orphaned' = {i \in orphaned : i < Len(disk[VectorIndexFile])}
    /\ response' = NoResponse
    /\ NoEmbedding
    /\ UNCHANGED <<disk, chunks, file_hashes, removed>>

\* a lock taken with acquire() and released only at the end of the body
LockAfterRaiseHeld(t) == t

\* `async with self._processing_lock`: __aexit__ releases the lock when an
\* exception leaves the block, or is caught inside it and followed by a return
LockAfterRaise(t) == "free"

\* the operation from the acquisition of the lock to its first await, with
\* no limit on the vectors it may add later
EnterLocked(t, op, ps) ==
    /\ NoEmbedding
    /\ CASE op = "update" -> EnterUpdate(t, ps[1])
         [] op = "index" -> EnterIndex(t)
         [] op = "batch" -> EnterBatch(t, ps)
         [] op = "cleanup" -> EnterCleanup(t)

\* a caller starts an indexing operation; it takes the lock or waits for it
CallLocked(t, op, ps) ==
    /\ task[t].op = "idle"
    /\ IF op = "update" /\ ~initialized
       THEN /\ response' = [op |-> "update", path |-> ps[1], branch |-> "not_ready", stored |-> {}, returned |-> None]
            /\ NoEmbedding
            /\ UNCHANGED <<initialized, lock, task, chunks, file_hashes, index, orphaned, removed>>
       ELSE /\ initialized' = TRUE
            /\ IF LockAdmits(t)
               THEN EnterLocked(t, op, ps)
               ELSE /\ task' = [task EXCEPT ![t] = [IdleTask EXCEPT !.op = op, !.pc = "wait",
                                                                    !.paths = ps]]
                    /\ response' = NoResponse
                    /\ NoEmbedding
                    /\ UNCHANGED <<lock, chunks, file_hashes, index, orphaned, removed>>
    /\ UNCHANGED disk

\* the event loop wakes a waiter of the released lock
AcquireLocked(t) ==
    /\ task[t].pc = "wait"
    /\ LockAdmits(t)
    /\ EnterLocked(t, task[t].op, task[t].paths)
    /\ UNCHANGED <<disk, initialized>>

\* the chunks the next step of the holder hands to add_chunks
StepChunks(t) ==
    CASE task[t].op = "index" -> FlattenChunks(get_code_files)
      [] task[t].op = "update" -> process_file(JoinWorkingDir(task[t].paths[1]))
      [] task[t].op = "batch" -> process_file(Head(task[t].paths))
      [] OTHER -> <<>>

\* The holder's step raises (_generate_embeddings or add_chunks fails).
\* index_codebase has no try around them: the exception leaves the `async
\* with` block.  update_file catches it and returns.  batch_update_files
\* catches it inside the loop, after remove_file_chunks, and goes on with
\* the next file.
StepRaises(t) ==
    /\ task[t].pc \in {"locked", "process", "loop"}
    /\ StepChunks(t) # <<>>
    /\ NoEmbedding
    /\ CASE task[t].op = "index" ->
              /\ task' = [task EXCEPT ![t] = IdleTask]
              /\ lock' = LockAfterRaise(t)
              /\ response' = [op |-> "index", branch |-> "raised"]
              /\ UNCHANGED <<chunks, file_hashes, index, orphaned, removed>>
         [] task[t].op = "update" ->
              /\ task' = [task EXCEPT ![t] = IdleTask]
              /\ lock' = LockAfterRaise(t)
              /\ response' = [op |-> "update", path |-> task[t].paths[1], branch |-> "raised",
                              stored |-> task[t].stored, returned |-> None]
              /\ UNCHANGED <<chunks, file_hashes, index, orphaned, removed>>
         [] task[t].op = "batch" ->
              /\ SetStore(remove_file_chunks(Store, Head(task[t].paths)))
              /\ IF Tail(task[t].paths) = <<>>
                 THEN Finish(t, [op |-> "batch", updated_files |-> task[t].updated,
                                 skipped_files |-> task[t].given - task[t].needing,
                                 total_chunks |-> task[t].total])
                 ELSE Proceed(t, [task[t] EXCEPT !.paths = Tail(task[t].paths)])
    /\ UNCHANGED <<disk, initialized>>

\* vectors the index has room for before add_chunks fails
MaxLiveVectors == 3

\* the holder of the lock runs on from its await: the step succeeds while
\* the index has room for its vectors, or it raises
HolderStep(t) ==
    \/ /\ \E cs \in {StepChunks(t)} : Len(index) + Len(cs) <= MaxLiveVectors
       /\ (UpdateReindex(t) \/ IndexRun(t) \/ BatchFile(t))
    \/ StepRaises(t)

\* two callers start indexing operations at any time over a tree in which
\* a.py is rewritten and deleted
NextLive ==
    \/ Initialize
    \/ \E t \in Tasks : CallLocked(t, "index", <<>>)
    \/ \E t \in Tasks : CallLocked(t, "cleanup", <<>>)
    \/ \E t \in Tasks : CallLocked(t, "batch", <<Abs("a.py")>>)
    \/ \E t \in Tasks : CallLocked(t, "update", <<Abs("a.py")>>)
    \/ \E t \in Tasks : AcquireLocked(t)
    \/ \E t \in Tasks : HolderStep(t)
    \/ WriteFile("a.py", MovedContent)
    \/ DeleteFile("a.py")

\* The event loop resumes every task that can run (weak fairness of the
\* holder's step), and asyncio.Lock wakes its waiters in the order they
\* came, so a waiter is not passed over for ever (strong fairness of the
\* acquisition).
SpecLive ==
    /\ Init /\ [][NextLive]_vars
    /\ \A t \in Tasks : WF_vars(HolderStep(t)) /\ SF_vars(AcquireLocked(t))

\* The process is started again with metadata.db as it was and no readable
\* index file: _init_database keeps the rows (CREATE TABLE IF NOT EXISTS)
\* and _load_or_create_faiss_index makes an empty IndexFlatIP.
RestartWithoutIndexFile ==
    /\ \A t \in Tasks : task[t] = IdleTask
    /\ initialized' = FALSE
    /\ lock' = "free"
    /\ index' = <<>>
    /\ orphaned' = {}
    /\ response' = NoResponse
    /\ NoEmbedding
    /\ UNCHANGED <<disk, task, chunks, file_hashes, removed>>

\* the rows that the SELECT ... WHERE faiss_index = ? of VectorStore.search
\* can hand to fetchone for a hit at position i of the index
RowsOfHit(rows, i) == {r \in rows : r.faiss_index = i}

\* files are indexed and updated, the tree is edited, and the process is
\* started again without its index file
NextRestore ==
    \/ \E t \in SeqTasks : Call(t, "index", <<>>)
    \/ \E t \in SeqTasks : IndexRun(t)
    \/ \E t \in SeqTasks, p \in Paths : Call(t, "update", <<p>>)
    \/ \E t \in SeqTasks : UpdateReindex(t)
    \/ \E f \in Edited : \E c \in ContentsOf(f) : WriteFile(f, c)
    \/ RestartWithoutIndexFile

SpecRestore == Init /\ [][NextRestore]_vars

\* index_codebase runs over a tree that is edited, and the process may die
\* between any two statements of add_chunks
NextPersist ==
    \/ \E t \in SeqTasks : Call(t, "index", <<>>)
    \/ \E t \in SeqTasks : IndexStep(t)
    \/ \E f \in Edited : \E c \in ContentsOf(f) : WriteFile(f, c)
    \/ Crash

SpecPersist == InitPersist /\ [][NextPersist]_vars

\* the brace-language files the two brace scans are applied to: up to
\* MaxBraceLines lines of up to MaxLineLen characters
MaxBraceLines == 3
MaxLineLen == 2
BraceLines == UNION {[1..n -> BraceChars] : n \in 0..MaxLineLen}

\* a declaration on 0-based line start_idx of a file, and what the bounds
\* detector and the chunker have answered for it so far
BraceArgs(lines, start_idx) ==
    [op |-> "brace", lines |-> lines, start_idx |-> start_idx,
     start |-> None, end |-> None, line_end |-> None]

InitBrace ==
    /\ disk = InitialDisk
    /\ initialized = FALSE
    /\ lock = "free"
    /\ task = [t \in Tasks |-> IdleTask]
    /\ chunks = {}
    /\ file_hashes = {}
    /\ index = <<>>
    /\ orphaned = {}
    /\ removed = {}
    /\ embedCalls = 0
    /\ \E n \in 1..MaxBraceLines : \E ls \in [1..n -> BraceLines] : \E i \in 0..(n - 1) :
          response = BraceArgs(ls, i)

\* find_javascript_bounds applied to the declaration
JsBoundsCall ==
    /\ response.op = "brace" /\ response.end = None
    /\ LET b == find_javascript_bounds(response.lines, response.start_idx)
       IN response' = [response EXCEPT !.start = b[1], !.end = b[2]]
    /\ UNCHANGED <<disk, initialized, lock, task, chunks, file_hashes, index, orphaned,
                   removed, embedCalls>>

\* the chunker's scan applied to the declaration; its pattern ends on a '{'
JsChunkCall ==
    /\ response.op = "brace" /\ response.line_end = None
    /\ CountChar(response.lines[response.start_idx + 1], "{") > 0
    /\ response' = [response EXCEPT
                       !.line_end = JSChunker_line_end(response.lines, response.start_idx)]
    /\ UNCHANGED <<disk, initialized, lock, task, chunks, file_hashes, index, orphaned,
                   removed, embedCalls>>

NextBrace == JsBoundsCall \/ JsChunkCall

SpecBrace == InitBrace /\ [][NextBrace]_vars

\* ------------------------------------------------- SymbolReader.validate_path
\* A path is a list of components, each a list of characters.  The working
\* directory is /p; /pq is a sibling whose name begins with its name.
MaxComponents == 3

ParentDir == <<".", ".">>
working_dir == << <<"p">> >>
Components == {ParentDir, <<"p">>, <<"p", "q">>, <<"q">>, <<"f">>}

\* the files of the machine: one in the working directory, three outside it
FileSystem == {<< <<"p">>, <<"f">> >>, << <<"p", "q">>, <<"f">> >>,
               << <<"q">>, <<"f">> >>, << <<"f">> >>}

\* Path.resolve(): '..' steps to the parent, and the parent of / is /
RECURSIVE Resolve(_, _)
Resolve(parts, acc) ==
    IF parts = <<>> THEN acc
    ELSE IF Head(parts) = ParentDir
         THEN Resolve(Tail(parts), IF acc = <<>> THEN acc ELSE SubSeq(acc, 1, Len(acc) - 1))
         ELSE Resolve(Tail(parts), Append(acc, Head(parts)))

\* str(path): the characters of an absolute path
RECURSIVE JoinParts(_)
JoinParts(parts) ==
    IF parts = <<>> THEN <<>> ELSE <<"/">> \o Head(parts) \o JoinParts(Tail(parts))

PathStr(parts) == IF parts = <<>> THEN <<"/">> ELSE JoinParts(parts)

\* a test that compares whole components: abs_path.is_relative_to(working_dir)
IsRelativeTo(abs_path, dir) ==
    Len(dir) <= Len(abs_path) /\ SubSeq(abs_path, 1, Len(dir)) = dir

\* str(abs_path).startswith(str(self.working_dir.resolve()))
PathStartsWith(abs_path, dir) == StartsWith(PathStr(abs_path), PathStr(dir))

\* SymbolReader.validate_path: the resolved path, and whether it is let through
validate_path(file_path) ==
    LET abs_path == IF file_path.isabs THEN Resolve(file_path.parts, <<>>)
                    ELSE Resolve(working_dir \o file_path.parts, <<>>)
    IN [abs_path |-> abs_path, allowed |-> PathStartsWith(abs_path, working_dir)]

PathArgs(isabs, parts) == [op |-> "path", isabs |-> isabs, parts |-> parts]

InitPath ==
    /\ disk = InitialDisk
    /\ initialized = FALSE
    /\ lock = "free"
    /\ task = [t \in Tasks |-> IdleTask]
    /\ chunks = {}
    /\ file_hashes = {}
    /\ index = <<>>
    /\ orphaned = {}
    /\ removed = {}
    /\ embedCalls = 0
    /\ \E isabs \in BOOLEAN, n \in 1..MaxComponents :
          \E parts \in [1..n -> Components] : response = PathArgs(isabs, parts)

\* read_code_content up to the read of the file: validate_path (its
\* ValueError is caught and reported), the existence test, open()
ReadPath ==
    /\ response.op = "path"
    /\ LET v == validate_path(response)
       IN response' = [op |-> "read_path", isabs |-> response.isabs, parts |-> response.parts,
                       abs_path |-> v.abs_path,
                       success |-> v.allowed /\ v.abs_path \in FileSystem,
                       opened |-> IF v.allowed /\ v.abs_path \in FileSystem
                                  THEN {v.abs_path} ELSE {}]
    /\ NoEmbedding
    /\ UNCHANGED <<disk, initialized, lock, task, chunks, file_hashes, index, orphaned, removed>>

NextPath == ReadPath

SpecPath == InitPath /\ [][NextPath]_vars

\* lists of paths handed to batch_update_files while files fail
FailingBatchArgs ==
    {<<Abs("a.py")>>, <<Abs("a.py"), Abs("n.md")>>, <<Abs("n.md"), Abs("a.py")>>}

\* The engine of a tree in which a file may be unreadable or unparseable
\* when it is indexed.
NextFailing ==
    \/ Initialize
    \/ \E t \in SeqTasks : Call(t, "index", <<>>)
    \/ \E t \in SeqTasks : IndexRun(t)
    \/ \E t \in SeqTasks, ps \in FailingBatchArgs : Call(t, "batch", ps)
    \/ \E t \in SeqTasks : BatchFile(t)
    \/ \E f \in Edited : \E c \in ContentsOf(f) \cup {Unparseable} : WriteFile(f, c)
    \/ \E f \in Edited : Chmod(f)
    \/ \E f \in Edited : DeleteFile(f)

SpecFailing == Init /\ [][NextFailing]_vars

\* VectorStore.has_file_changed(p), asked of the store as it is
HasFileChanged(p) ==
    /\ response' = [op |-> "changed", path |-> p, changed |-> has_file_changed(file_hashes, p)]
    /\ NoEmbedding
    /\ UNCHANGED <<disk, initialized, lock, task, chunks, file_hashes, index, orphaned, removed>>

\* VectorStore.get_files_needing_update(ps), asked of the store as it is
GetFilesNeedingUpdate(ps) ==
    /\ response' = [op |-> "needing", paths |-> ps,
                    files |-> get_files_needing_update(file_hashes, ps)]
    /\ NoEmbedding
    /\ UNCHANGED <<disk, initialized, lock, task, chunks, file_hashes, index, orphaned, removed>>

\* The store of a tree that is indexed, edited and asked what has changed.
NextChange ==
    \/ \E t \in SeqTasks : Call(t, "index", <<>>)
    \/ \E t \in SeqTasks : IndexRun(t)
    \/ \E t \in SeqTasks, ps \in FailingBatchArgs : Call(t, "batch", ps)
    \/ \E t \in SeqTasks : BatchFile(t)
    \/ \E p \in Paths : HasFileChanged(p)
    \/ \E ps \in FailingBatchArgs \cup {<<Rel("a.py"), Abs("n.md")>>} : GetFilesNeedingUpdate(ps)
    \/ \E f \in Edited : \E c \in ContentsOf(f) : WriteFile(f, c)
    \/ \E f \in Edited : Chmod(f)
    \/ \E f \in Edited : DeleteFile(f)

SpecChange == Init /\ [][NextChange]_vars

TypeOK ==
    /\ initialized \in BOOLEAN
    /\ lock \in Tasks \cup {"free"}
    /\ embedCalls \in {0, 1}
    /\ \A f \in Files : disk[f] \in ContentsOf(f) \cup {NoFile, Unreadable, Unparseable,
                                                        MovedContent, ExactDisk[f]}

\* ------------------------------------------------------------------ claims
Results == IF response.op = "search" THEN response.results ELSE <<>>

\* the index rows VectorStore.search looked at for the request just answered
FaissHits ==
    IF response.op = "search" /\ response.search_type = "semantic" /\ Len(index) > 0
    THEN LET hs == FaissSearch(index, 0..(Len(index) - 1), Encode(<<response.query>>),
                               Min(response.max_results * 2, Len(index)))
         IN {hs[i].idx : i \in 1..Len(hs)}
    ELSE {}

Quiescent == \A t \in Tasks : task[t].op = "idle"

\* what a row or a chunk says about the file it belongs to
RowView(r) == [file |-> r.file_path.file, symbol_name |-> r.symbol_name,
               line_start |-> r.line_start, chunk_type |-> r.chunk_type,
               file_hash |-> r.file_hash]

RowsOfFile(f) == {r \in chunks : r.file_path.file = f}

\* the chunks of file f as the chunkers derive them from its content on disk
DerivedViews(f) ==
    LET cs == process_file(Abs(f))
    IN {RowView(cs[i]) : i \in 1..Len(cs)}

\* no row of file f is left from earlier content, and every chunk of the
\* current content has its row
RowsAreCurrent(f) ==
    /\ \A r \in RowsOfFile(f) : RowView(r) \in DerivedViews(f)
    /\ \A v \in DerivedViews(f) : \E r \in RowsOfFile(f) :
          r.symbol_name = v.symbol_name /\ r.line_start = v.line_start

\* C1: every result of a semantic search is resolved from an index row whose
\* metadata row is live at the time of the search; an index row whose
\* metadata row was deleted or replaced is never returned.
C1_SearchSkipsOrphans ==
    response.op = "search" /\ response.search_type = "semantic" =>
        \A i \in 1..Len(Results) :
            /\ Results[i].hit \notin orphaned
            /\ \E r \in chunks : /\ r.chunk_id = Results[i].chunk_id
                                 /\ r.file_path = Results[i].file_path
                                 /\ r.faiss_index = Results[i].hit

\* a semantic search that met an orphaned vector among its nearest rows and
\* still returned live results
C1_Witness ==
    /\ response.op = "search" /\ response.search_type = "semantic"
    /\ Results # <<>>
    /\ FaissHits \cap orphaned # {}

\* C2 (as claimed), for searches made between engine calls: after
\* remove_file_chunks(f), and until chunks for f are added again, no search of
\* any mode returns a result whose file_path is f.
C2_NoModeReturnsRemoved ==
    Quiescent /\ response.op = "search" =>
        \A i \in 1..Len(Results) : Results[i].file_path \notin removed

\* C2 (amended): after remove_file_chunks(f), and until chunks for f are added
\* again, no semantic, symbol_exact or fuzzy_symbol search returns a result
\* whose file_path is f.
C2_IndexModesSkipRemoved ==
    response.op = "search" /\ response.search_type # "text" =>
        \A i \in 1..Len(Results) : Results[i].file_path \notin removed

\* a search of the index that returns results while a removed file is still on disk
C2_Witness ==
    /\ response.op = "search" /\ response.search_type # "text"
    /\ Results # <<>>
    /\ \E p \in removed : disk[p.file] # NoFile

\* C3: after update_file(p) has re-indexed an existing file whose hash differs
\* from the stored one, the live rows of the file are exactly the chunks of its
\* current content, each with the current hash; no row of the previous
\* content remains.
C3_UpdateReplacesRows ==
    /\ response.op = "update" /\ response.branch = "reindexed"
    /\ response.stored # {}
    /\ Sha1(disk[response.path.file]) \notin response.stored
    => RowsAreCurrent(response.path.file)

\* the step is a call of update_file(p) by an idle task
IsUpdateCall(p) ==
    \E t \in Tasks :
        /\ task[t].op = "idle"
        /\ \/ task'[t].op = "update" /\ task'[t].paths = <<p>>
           \/ response'.op = "update" /\ response'.path = p

\* C4: update_file(p) called right after update_file(p), the file unchanged in
\* between, does no work: no embedding call, no vector appended, no metadata
\* row or file-hash record changed.
C4_SecondUpdateDoesNothing ==
    [][(/\ response.op = "update"
        /\ response.branch \in {"reindexed", "unchanged"}
        /\ IsUpdateCall(response.path))
       => (/\ response'.op = "update" /\ response'.branch = "unchanged"
           /\ embedCalls' = 0
           /\ index' = index /\ chunks' = chunks /\ file_hashes' = file_hashes)]_vars

InSection(t) == task[t].pc \in {"locked", "process", "loop"}

\* C5: no two indexing operations are inside their store-mutating section at
\* the same time, and the one inside holds the lock.
C5_MutualExclusion ==
    /\ \A t \in Tasks, u \in Tasks : InSection(t) /\ InSection(u) => t = u
    /\ \A t \in Tasks : InSection(t) => lock = t

\* one operation is between its removal and its insertion while another waits
C5_Witness ==
    \E t \in Tasks, u \in Tasks :
        /\ task[t].pc \in {"process", "loop"}
        /\ task[u].pc = "wait"

\* C6: a file-hash record exists for a path exactly when a live chunk row has
\* that path.
C6_RecordIffRows ==
    {h.file_path : h \in file_hashes} = IndexedPaths(chunks)

\* rows and records exist for one path after another path's were removed
C6_Witness ==
    /\ removed # {}
    /\ file_hashes # {}
    /\ orphaned # {}

\* C7: between calls, the chunk_count of every file-hash record is the number
\* of live chunk rows of its path.
C7_ChunkCountIsRowCount ==
    Quiescent =>
        \A h \in file_hashes : h.chunk_count = Cardinality(RowsOfPath(chunks, h.file_path))

IndexableOnDisk == {f \in Files : disk[f] # NoFile /\ Suffix(f) \in code_extensions}

\* C8: after index_codebase the rows of indexable files are exactly the chunks
\* of the indexable files on disk: none of a deleted file, none of a symbol
\* that is gone.
C8_IndexIsFullRebuild ==
    response.op = "index" =>
        /\ \A r \in chunks : Suffix(r.file_path.file) \in code_extensions =>
              /\ r.file_path.file \in IndexableOnDisk
              /\ RowView(r) \in DerivedViews(r.file_path.file)
        /\ \A f \in IndexableOnDisk : RowsAreCurrent(f)

\* C9: cleanup_index removes the rows and the record of every indexed file
\* that is gone from disk, removes nothing of an indexed file that is on disk,
\* and returns the number of rows it removed.
C9_CleanupRemovesOnlyDeleted ==
    [][response'.op = "cleanup" =>
        /\ \A r \in chunks' : disk[r.file_path.file] # NoFile
        /\ \A h \in file_hashes' : disk[h.file_path.file] # NoFile
        /\ \A r \in chunks : disk[r.file_path.file] # NoFile => r \in chunks'
        /\ \A h \in file_hashes : disk[h.file_path.file] # NoFile => h \in file_hashes'
        /\ response'.removed_chunks = Cardinality(chunks) - Cardinality(chunks')]_vars

\* C10: update_file(p) for an indexed file that is gone from disk leaves no
\* chunk row and no file-hash record of the file, calls no embedding and
\* appends no vector.
C10_UpdateOfDeletedFile ==
    [][(/\ response'.op = "update" /\ response'.branch = "deleted"
        /\ response'.stored # {})
       => (/\ \A r \in chunks' : r.file_path.file # response'.path.file
           /\ \A h \in file_hashes' : h.file_path.file # response'.path.file
           /\ embedCalls' = 0
           /\ index' = index)]_vars

\* the paths of a list whose hash equals the one in their file-hash record
UnchangedIn(ps) == {i \in 1..Len(ps) : ~has_file_changed(file_hashes, ps[i])}

\* the rows and the record of path q are what they were
PathUntouched(q) ==
    /\ RowsOfPath(chunks', q) = RowsOfPath(chunks, q)
    /\ {h \in file_hashes' : h.file_path = q} = {h \in file_hashes : h.file_path = q}

\* C11: batch_update_files removes and re-embeds only the paths whose hash
\* differs from their file-hash record or that have none: the rows, records
\* and vectors of every other path stay as they were, a call with no changed
\* path makes no embedding call, and skipped_files is the number of
\* unchanged paths.
C11_BatchTouchesOnlyChanged ==
    [][\A t \in Tasks :
         /\ \A ps \in BatchArgs :
               (\/ lock = "free" /\ Call(t, "batch", ps)
                \/ task[t].op = "batch" /\ task[t].paths = ps /\ Acquire(t)) =>
               /\ UNCHANGED <<chunks, file_hashes, index>>
               /\ embedCalls' = 0
               /\ IF Cardinality(UnchangedIn(ps)) = Len(ps)
                  THEN /\ response'.op = "batch"
                       /\ response'.skipped_files = Len(ps)
                       /\ response'.updated_files = 0
                  ELSE /\ task'[t].given - task'[t].needing = Cardinality(UnchangedIn(ps))
                       /\ \A i \in 1..Len(task'[t].paths) :
                             has_file_changed(file_hashes, task'[t].paths[i])
         /\ BatchFile(t) =>
               /\ has_file_changed(file_hashes, Head(task[t].paths))
               /\ \A q \in Paths \ {Head(task[t].paths)} : PathUntouched(q)
               /\ SubSeq(index', 1, Len(index)) = index
               /\ response'.op = "batch" =>
                     response'.skipped_files = task[t].given - task[t].needing
      ]_vars

\* a batch that skipped an unchanged path and re-indexed a changed one
C11_Witness ==
    /\ response.op = "batch"
    /\ response.skipped_files > 0
    /\ response.updated_files > 0

\* C12: every chunk row is stored under the path relative to the indexed
\* root, so the rows of one file share one key whichever operation stored
\* them.
C12_RelativeKeys ==
    /\ \A r \in chunks : r.file_path.form = "rel"
    /\ \A r1 \in chunks, r2 \in chunks :
          r1.file_path.file = r2.file_path.file => r1.file_path = r2.file_path

\* C13: initialize() on an engine whose store holds no index leaves the
\* engine ready and every indexable file of the working tree with chunk rows.
C13_InitializeIndexes ==
    [][(/\ response'.op = "initialize"
        /\ ~initialized
        /\ chunks = {} /\ index = <<>>)
       => (/\ initialized'
           /\ \A f \in IndexableOnDisk : \E r \in chunks' : r.file_path.file = f)]_vars

\* C14: a ready engine stays ready, and initialize() on a ready engine loads
\* nothing, indexes nothing and changes no engine or store state.
C14_InitializeIdempotent ==
    [][initialized =>
         /\ initialized'
         /\ response'.op = "initialize" =>
               /\ ~response'.loaded
               /\ embedCalls' = 0
               /\ UNCHANGED <<disk, lock, task, chunks, file_hashes, index, orphaned>>
      ]_vars

\* initialize() has returned on an engine that was ready and holds an index
C14_Witness ==
    /\ response.op = "initialize"
    /\ ~response.loaded
    /\ chunks # {}

\* C15: until initialize() has succeeded, no other call makes the engine
\* ready, starts an indexing operation or changes the index or the metadata.
C15_RefusesUntilReady ==
    [][(~initialized /\ response'.op # "initialize")
       => (/\ ~initialized'
           /\ \A t \in Tasks : task'[t].op = "idle"
           /\ embedCalls' = 0
           /\ UNCHANGED <<chunks, file_hashes, index>>)]_vars

\* the chunks an add_chunks call of task t is about to be passed
ChunksPassed(t) ==
    CASE task[t].op = "index" -> FlattenChunks(get_code_files)
      [] task[t].op = "update" -> process_file(JoinWorkingDir(task[t].paths[1]))
      [] task[t].op = "batch" -> process_file(Head(task[t].paths))
      [] OTHER -> <<>>

\* a step of task t that reaches add_chunks
AddStep(t) == UpdateReindex(t) \/ IndexRun(t) \/ BatchFile(t)

\* C16: the vector count get_stats reports never decreases: a step that
\* reaches add_chunks raises it by exactly the number of chunks passed and
\* keeps the vectors already there, every other step (remove_file_chunks,
\* cleanup_deleted_files, the early returns) leaves the index as it was, and
\* get_stats reports the count of the index.
C16_VectorsNeverDecrease ==
    [][ /\ faiss_vectors' >= faiss_vectors
        /\ SubSeq(index', 1, Len(index)) = index
        /\ \A t \in Tasks :
              AddStep(t) => faiss_vectors' = faiss_vectors + Len(ChunksPassed(t))
        /\ (~ \E t \in Tasks : AddStep(t)) => index' = index
        /\ chunks' \subseteq chunks => index' = index
        /\ response'.op = "stats" => response'.faiss_vectors = faiss_vectors
      ]_vars

\* C16 witness: get_stats reports more vectors than rows: rows were removed
\* after vectors had been added, and the vectors are still counted
C16_Witness ==
    /\ response.op = "stats"
    /\ response.faiss_vectors > response.total_chunks
    /\ response.faiss_vectors = faiss_vectors
    /\ removed # {}

\* a read-only operation can start and complete in the current state
ReadsEnabled ==
    /\ ENABLED GetStats
    /\ ENABLED GetIndexingStatus
    /\ \A f \in Files : ENABLED ListSymbolsInFile(f)
    /\ \A st \in SearchTypes : ENABLED Search(st, "foo", 1, NoPattern)

ReadOps == {"search", "stats", "status", "symbols"}

\* C17: search in every mode, list_symbols_in_file, get_stats and
\* get_indexing_status can start and complete while an indexing operation
\* holds the lock, and a read-only operation that has completed has left the
\* lock with the task that is inside the locked section.
C17_ReadsTakeNoLock ==
    /\ lock # "free" => ReadsEnabled
    /\ response.op \in ReadOps =>
          \A t \in Tasks : (lock = t <=> InSection(t)) /\ task[t].pc # "wait"

\* C17 witness: a read-only operation has completed while an indexing
\* operation holds the lock
C17_Witness ==
    /\ response.op \in ReadOps
    /\ lock # "free"
    /\ \E t \in Tasks : InSection(t)

\* the rows of the index that score strictly better than `score` against
\* the query of the last request
Nearer(score) ==
    {j \in 1..Len(index) : Score(Encode(<<response.query>>), index[j]) > score}

\* C18: a semantic search returns at most top_k results, in non-increasing
\* order of relevance_score; each is the row of one of the min(2 * top_k,
\* vector count) nearest vectors of the index, with that vector's score; and
\* with a file_pattern every result's file_path contains the pattern.
C18_SemanticSearchContract ==
    (response.op = "search" /\ response.search_type = "semantic") =>
        LET R == response.results
            top_k == response.max_results
        IN /\ Len(R) <= top_k
           /\ \A i \in 1..(Len(R) - 1) : R[i].relevance_score >= R[i + 1].relevance_score
           /\ \A i \in 1..Len(R) :
                 /\ R[i].hit \in 0..(Len(index) - 1)
                 /\ R[i].relevance_score = Score(Encode(<<response.query>>), index[R[i].hit + 1])
                 /\ Cardinality(Nearer(R[i].relevance_score)) < Min(2 * top_k, Len(index))
                 /\ \E r \in chunks : /\ r.faiss_index = R[i].hit
                                      /\ r.chunk_id = R[i].chunk_id
                                      /\ r.file_path = R[i].file_path
                 /\ response.file_pattern # NoPattern =>
                       PatternIn(response.file_pattern, R[i].file_path)

\* C18 witness: a search with a file_pattern has returned top_k results, the
\* first of them behind a hit of another file that the pattern filtered out
C18_Witness ==
    /\ response.op = "search" /\ response.search_type = "semantic"
    /\ response.file_pattern = "n.md"
    /\ Len(response.results) = response.max_results
    /\ \E r \in chunks : /\ r.file_path.file = "a.py"
                         /\ r.faiss_index < response.results[1].hit
                         /\ r.faiss_index + 1 \notin Nearer(response.results[1].relevance_score)

\* C19: every result of a fuzzy_symbol search scores at least the min_score
\* of the request, and every row that scores at least that min_score is
\* returned unless max_results cut it off.
C19_MinScoreHonoured ==
    (response.op = "search" /\ response.search_type = "fuzzy_symbol") =>
        LET R == response.results
            passing == {r \in chunks :
                          fuzzy_match_score(response.query, r.symbol_name) >= response.min_score}
        IN /\ \A i \in 1..Len(R) : R[i].relevance_score >= response.min_score
           /\ Len(R) = Min(response.max_results, Cardinality(passing))

\* the files on disk that declare a symbol named like the query
Declaring(query) ==
    {f \in IndexableOnDisk : \E i \in 1..Len(disk[f]) :
        Suffix(f) \in python_extensions /\ Chars(disk[f][i]) = Chars(query)}

\* every chunk of the content file f has on disk is in the store: the file
\* was indexed with that content
IndexedAsOnDisk(f) == \A v \in DerivedViews(f) : \E r \in RowsOfFile(f) : RowView(r) = v

\* C20: a symbol_exact search returns rows of the store whose symbol_name
\* equals the query, each with relevance_score 1.0, as many as there are up
\* to max_results, and never two for one declaration; once every file of the
\* project has been indexed with the content it has on disk and no other file
\* has rows, the results are
\* one per file that declares the symbol, so exactly one, for a.py, when a.py
\* alone declares it.
C20_ExactSymbolResults ==
    (response.op = "search" /\ response.search_type = "symbol_exact") =>
        LET R == response.results
            equal == {r \in chunks : Chars(r.symbol_name) = Chars(response.query)}
        IN /\ \A i \in 1..Len(R) :
                 /\ R[i].relevance_score = 100
                 /\ \E r \in equal : r.chunk_id = R[i].chunk_id
           /\ Len(R) = Min(response.max_results, Cardinality(equal))
           /\ \A i, j \in 1..Len(R) :
                 (/\ R[i].file_path.file = R[j].file_path.file
                  /\ R[i].line_start = R[j].line_start) => i = j
           /\ (/\ Quiescent
               /\ \A f \in IndexableOnDisk : IndexedAsOnDisk(f)
               /\ \A f \in Files \ IndexableOnDisk : RowsOfFile(f) = {}) =>
                 /\ \A i \in 1..Len(R) : R[i].file_path.file \in Declaring(response.query)
                 /\ Len(R) = Min(response.max_results, Cardinality(Declaring(response.query)))

\* two characters that differ at most in case
SameLetter(a, b) == a = b \/ {a, b} = {"f", "F"}

\* candidate[from + i] matches query[i] for every i, whatever the case
MatchesAt(query, candidate, from) ==
    /\ from + Len(query) <= Len(candidate)
    /\ \A i \in 1..Len(query) : SameLetter(query[i], candidate[from + i])

\* the characters of query occur in candidate in order, whatever the case
IsSubsequence(query, candidate) ==
    \E pos \in [1..Len(query) -> 1..Len(candidate)] :
        /\ \A i \in 1..Len(query) : SameLetter(query[i], candidate[pos[i]])
        /\ \A i \in 1..(Len(query) - 1) : pos[i] < pos[i + 1]

\* the first rung of the ladder that applies to (query, candidate)
Ladder(query, candidate) ==
    IF Len(query) = Len(candidate) /\ MatchesAt(query, candidate, 0) THEN 100
    ELSE IF MatchesAt(query, candidate, 0) THEN 90
    ELSE IF \E from \in 0..Len(candidate) : MatchesAt(query, candidate, from) THEN 70
    ELSE IF IsSubsequence(query, candidate) THEN 50
    ELSE 0

\* C21: fuzzy_match_score returns the first rung of the ladder that applies,
\* comparing the names without regard to case: 1.0 equal, 0.9 prefix, 0.7
\* contained, 0.5 subsequence, else 0.0; and the results of a fuzzy search
\* are in descending order of score.
C21_FuzzyLadder ==
    /\ response.op = "fuzzy_match_score" =>
          response.score = Ladder(response.query, response.symbol)
    /\ (response.op = "search" /\ response.search_type = "fuzzy_symbol") =>
          \A i \in 1..(Len(response.results) - 1) :
             response.results[i].relevance_score >= response.results[i + 1].relevance_score

\* C21 witness: a candidate that contains the query in another case, neither
\* equal to it nor starting with it, has scored 0.7
C21_Witness ==
    /\ response.op = "fuzzy_match_score"
    /\ response.score = 70
    /\ ~ Contains(response.symbol, response.query)

\* the chunk types that stand for a declared symbol
SymbolChunkTypes == {"function", "class", "interface"}

\* C22: an exact or fuzzy symbol search returns only rows whose chunk_type
\* is function, class or interface, never a file_overview, error or file row.
C22_SymbolSearchOnlySymbols ==
    (response.op = "search" /\ response.search_type \in {"symbol_exact", "fuzzy_symbol"}) =>
        \A i \in 1..Len(response.results) :
            response.results[i].chunk_type \in SymbolChunkTypes

\* the lines of the searched files that contain the query
MatchingLines(query, pat) ==
    {fl \in Files \X (1..2) :
        /\ GlobMatch(fl[1], pat)
        /\ disk[fl[1]] # NoFile
        /\ fl[2] <= Len(disk[fl[1]])
        /\ Contains(LineChars(fl[1], fl[2]), Chars(query))}

\* C23: a text search returns at most max_results matches, and exactly
\* max_results when the searched files hold at least that many matching lines.
C23_TextSearchStops ==
    (response.op = "search" /\ response.search_type = "text") =>
        LET n == Cardinality(MatchingLines(response.query, response.file_pattern))
        IN /\ Len(response.results) <= response.max_results
           /\ n >= response.max_results => Len(response.results) = response.max_results

\* C24: a read request that names a symbol and also gives a line range is
\* rejected with an error and returns no content.
C24_ConflictingModesRejected ==
    (/\ response.op = "read"
     /\ response.symbol_name # NoSymbol
     /\ response.start_line # None /\ response.end_line # None) =>
        ~ response.success

\* the number of matches a symbol read of the last request chose among
MatchCount ==
    LET db == find_symbol_in_database(response.symbol_name, response.path)
    IN IF db # <<>> THEN Len(db)
       ELSE IF disk[response.path.file] = NoFile THEN 0
       ELSE Cardinality({i \in 1..Len(disk[response.path.file]) :
                           /\ Suffix(response.path.file) \in python_extensions
                           /\ disk[response.path.file][i] = response.symbol_name})

\* the last request gave a line range
IsRangeRead == response.start_line # None /\ response.end_line # None

\* C25: a line range with start_line < 1, end_line < start_line or end_line
\* beyond the last line of the file is refused, and so is a symbol read whose
\* occurrence is below 1 or above the number of matches; a refusal carries
\* no content.  A valid range of an existing file returns exactly the lines
\* start_line..end_line and reports start, end and their count.
C25_ReadValidation ==
    response.op = "read" =>
        LET f == response.path.file
            n == IF disk[f] = NoFile THEN 0 ELSE Len(disk[f])
            sl == response.start_line
            el == response.end_line
        IN /\ ~ response.success => "content" \notin DOMAIN response
           /\ (IsRangeRead /\ (sl < 1 \/ el < sl \/ el > n)) => ~ response.success
           /\ (/\ ~ IsRangeRead
               /\ response.symbol_name # NoSymbol
               /\ (response.occurrence < 1 \/ response.occurrence > MatchCount)) =>
                 ~ response.success
           /\ (IsRangeRead /\ disk[f] # NoFile /\ 1 <= sl /\ sl <= el /\ el <= n) =>
                 /\ response.success
                 /\ Len(response.content) = el - sl + 1
                 /\ \A i \in 1..(el - sl + 1) : response.content[i].text = disk[f][sl + i - 1]
                 /\ response.start = sl /\ response.end = el
                 /\ response.total_lines = el - sl + 1

\* C25 witness: a valid two-line range has been read
C25_Witness ==
    /\ response.op = "read" /\ response.success
    /\ response.mode = "line_range"
    /\ response.start_line = 1 /\ response.end_line = 2
    /\ response.total_lines = 2

\* C26: a file that is missing from the disk is reported, never raised:
\* read_symbol_content answers with the failure "not found",
\* list_symbols_in_file with an error and an empty symbol list, and
\* update_file with a structured failure of its own.
C26_MissingFileReported ==
    /\ (response.op = "read" /\ disk[response.path.file] = NoFile
          => ~response.success /\ response.error = "not_found")
    /\ (response.op = "symbols" /\ disk[response.file] = NoFile
          => response.error /\ response.symbols = <<>>)
    /\ (response.op = "update" /\ response.branch = "deleted"
          => response.returned # None)

\* the rows and file-hash records of every path but p
OtherRows(rows, p) == {r \in rows : r.file_path # p}

IsErrorRow(r) ==
    /\ r.chunk_type = "error"
    /\ r.content = <<"Syntax error">>
    /\ r.line_start = 1 /\ r.line_end = 1

IdViews(rows) ==
    {[chunk_id |-> r.chunk_id, file_hash |-> r.file_hash, symbol_name |-> r.symbol_name,
      line_start |-> r.line_start, chunk_type |-> r.chunk_type] : r \in rows}

\* the hash recorded for file f at its absolute path is the hash of the
\* content it has on disk
RecordedAsOnDisk(f) ==
    /\ CanOpen(disk[f])
    /\ \E h \in file_hashes : h.file_path = Abs(f) /\ h.file_hash = Sha1(disk[f])

\* C29: chunking is deterministic.  Processing a path whose content did not
\* change yields the same chunks, chunk_ids and file_hash as before; two rows
\* with the same file_path, symbol_name and line_start have the same
\* chunk_id; and index_codebase over a file that is recorded with the content
\* it has on disk leaves the chunk_ids and hashes of the rows of that file as
\* they were, and as many rows as there were.
C29_ChunkingDeterministic ==
    [][/\ \A p \in Paths : disk'[p.file] = disk[p.file] => process_file(p)' = process_file(p)
       /\ \A r1, r2 \in chunks' :
             (/\ r1.file_path = r2.file_path /\ r1.symbol_name = r2.symbol_name
              /\ r1.line_start = r2.line_start)
             => r1.chunk_id = r2.chunk_id
       /\ \A t \in Tasks :
             (task[t].op = "index" /\ task[t].pc = "locked" /\ task'[t] # task[t])
             => \A f \in Files :
                  (RecordedAsOnDisk(f) /\ Suffix(f) \in code_extensions) =>
                     /\ IdViews(RowsOfPath(chunks', Abs(f))) = IdViews(RowsOfPath(chunks, Abs(f)))
                     /\ Cardinality(RowsOfPath(chunks', Abs(f)))
                          = Cardinality(RowsOfPath(chunks, Abs(f)))
      ]_vars

\* C29 witness: index_codebase has run twice over the unchanged a.py; the
\* two rows of the file were replaced and the vectors of the first run are
\* orphaned
C29_Witness ==
    /\ response.op = "index" /\ response.chunks = 2
    /\ disk = ExactDisk
    /\ Len(index) = 4 /\ Cardinality(orphaned) = 2
    /\ Cardinality(RowsOfPath(chunks, Abs("a.py"))) = 2

\* the 0-based indices after s of the lines that end the body of the
\* declaration on line s: neither blank nor a comment, and indented no deeper
\* than the declaration
Terminators(lines, s) ==
    {i \in (s + 1)..(Len(lines) - 1) :
        /\ lines[i + 1].kind \notin {"blank", "comment"}
        /\ lines[i + 1].indent <= lines[s + 1].indent}

\* the least element of a non-empty set of integers
Least(S) == CHOOSE x \in S : \A y \in S : x <= y

\* C30: find_python_bounds(lines, s) returns (start, end), 0-based and
\* inclusive: start is s moved up over the contiguous lines right above it
\* that begin with '@'; end is the line just before the first line after s
\* that is neither blank nor a comment and is indented no deeper than line
\* s, or the last line of the file if there is none; and
\* 0 <= start <= s <= end <= len(lines) - 1.
C30_PythonBounds ==
    response.op = "bounds" =>
        LET lines == response.lines
            s == response.start_idx
            T == Terminators(lines, s)
        IN /\ response.start \in 0..s
           /\ \A j \in response.start..(s - 1) : lines[j + 1].kind = "decorator"
           /\ response.start > 0 => lines[response.start].kind # "decorator"
           /\ response.end = IF T = {} THEN Len(lines) - 1 ELSE Least(T) - 1
           /\ s <= response.end /\ response.end <= Len(lines) - 1

\* C30 witness: the decorated foo (decorator, def, indented return, x = 1)
\* with s on the def line gives lines 1-3 of the file, 0-based (0, 2)
C30_Witness ==
    /\ response.op = "bounds"
    /\ response.lines = <<[indent |-> 0, kind |-> "decorator"], [indent |-> 0, kind |-> "code"],
                          [indent |-> 1, kind |-> "code"], [indent |-> 0, kind |-> "code"]>>
    /\ response.start_idx = 1
    /\ response.start = 0 /\ response.end = 2

\* the first 0-based line from i on at whose end the brace depth, d before
\* the line, is back at 0; the last line if there is none
RECURSIVE BodyEnd(_, _, _)
BodyEnd(lines, i, d) ==
    IF i >= Len(lines) THEN Len(lines) - 1
    ELSE IF DepthAfter(lines[i + 1], 1, d) = 0 THEN i
    ELSE BodyEnd(lines, i + 1, DepthAfter(lines[i + 1], 1, d))

\* the end of the declaration that starts on 0-based line i, by the brace
\* contract: a line without '{' that has a ';' or ends in ')' ends it; the
\* depth is 1 at the first '{' and every later brace adjusts it
RECURSIVE DeclarationEnd(_, _)
DeclarationEnd(lines, i) ==
    IF i >= Len(lines) THEN Len(lines) - 1
    ELSE LET line == lines[i + 1]
         IN IF CountChar(line, "{") > 0
            THEN LET d == DepthAfter(line, FirstBrace(line) + 1, 1)
                 IN IF d = 0 THEN i ELSE BodyEnd(lines, i + 1, d)
            ELSE IF CountChar(line, ";") > 0 \/ EndsWithParen(line) THEN i
            ELSE DeclarationEnd(lines, i + 1)

\* C31: find_javascript_bounds(lines, s) returns start = s and, as end, the
\* first line on which the brace depth (1 at the first '{' found at or after
\* s, adjusted by every later '{' and '}') is back at 0; a line with ';' or
\* ending in ')' met before any '{' ends the declaration; the last line if
\* the depth never returns to 0; and s <= end <= len(lines) - 1.
C31_BraceBounds ==
    (response.op = "brace" /\ response.end # None) =>
        /\ response.start = response.start_idx
        /\ response.end = DeclarationEnd(response.lines, response.start_idx)
        /\ response.start_idx <= response.end
        /\ response.end <= Len(response.lines) - 1

\* the line is a declaration with a plain signature: it has a '{' and no
\* '}' stands before its first '{'
PlainDeclaration(line) ==
    /\ CountChar(line, "{") > 0
    /\ \A k \in 1..FirstBrace(line) : line[k] # "}"

\* C32: for every brace-language declaration the line_end of the chunk the
\* JS chunker makes (1-based) is the end line find_javascript_bounds returns
\* (0-based) when started on the same declaration line.
C32_SameBraceContract ==
    (/\ response.op = "brace" /\ response.end # None /\ response.line_end # None
     /\ PlainDeclaration(response.lines[response.start_idx + 1]))
    => response.line_end = response.end + 1

\* the vector at 0-based position i of an index is the embedding of a
\* committed row that points at i, or of a row that was committed and has
\* since been replaced
Committed(ix, rows, orph, i) ==
    \/ \E r \in rows : r.faiss_index = i /\ Encode(r.content) = ix[i + 1]
    \/ i \in orph

ChangedSinceIndexed(p) ==
    \/ ~CanOpen(disk[p.file])
    \/ \A h \in file_hashes : h.file_path # p
    \/ \E h \in file_hashes : h.file_path = p /\ h.file_hash # Sha1(disk[p.file])

\* C34: has_file_changed(p) is true exactly when the file cannot be read, or
\* there is no file-hash record for p, or the recorded hash differs from the
\* SHA1 of the current content; get_files_needing_update(paths) returns
\* exactly the paths for which that holds, in the order they were given.
C34_ChangeDetection ==
    /\ response.op = "changed" => (response.changed <=> ChangedSinceIndexed(response.path))
    /\ response.op = "needing" =>
          LET ps == response.paths
              fs == response.files
          IN /\ \A i \in 1..Len(ps) :
                   ChangedSinceIndexed(ps[i]) <=> \E j \in 1..Len(fs) : fs[j] = ps[i]
             /\ \A j \in 1..Len(fs) : \E i \in 1..Len(ps) : ps[i] = fs[j]
             /\ \A j, k \in 1..Len(fs) : j < k =>
                   \E a, b \in 1..Len(ps) : a < b /\ ps[a] = fs[j] /\ ps[b] = fs[k]

\* C34 witness: a.py and n.md were indexed, a.py was then rewritten, and
\* get_files_needing_update over the two returns a.py alone
C34_Witness ==
    /\ response.op = "needing"
    /\ response.paths = <<Abs("a.py"), Abs("n.md")>>
    /\ response.files = <<Abs("a.py")>>
    /\ CanOpen(disk["a.py"])
    /\ \E h \in file_hashes : h.file_path = Abs("a.py") /\ h.file_hash # Sha1(disk["a.py"])
    /\ \E h \in file_hashes : h.file_path = Abs("n.md") /\ h.file_hash = Sha1(disk["n.md"])

\* C35: remove_file_chunks(f) deletes every chunk row whose file_path is
\* exactly f and the file-hash record of f, returns the number of rows it
\* deleted (0 when f has none), and leaves the rows and records of every
\* other path, and the vectors of the embedding index, as they were.
C35_RemoveFileChunksFrame ==
    [][response'.op = "remove" =>
         LET f == response'.path
         IN /\ \A r \in chunks' : r.file_path # f
            /\ \A h \in file_hashes' : h.file_path # f
            /\ response'.removed_count = Cardinality({r \in chunks : r.file_path = f})
            /\ {r \in chunks : r.file_path # f} = chunks'
            /\ {h \in file_hashes : h.file_path # f} = file_hashes'
            /\ index' = index
      ]_vars

\* C35 witness: a.py was indexed under its absolute and under a relative
\* path; the rows of the absolute path were removed and those of the
\* relative path are still there, with every vector still in the index
C35_Witness ==
    /\ response.op = "remove" /\ response.path = Abs("a.py")
    /\ response.removed_count = 2
    /\ RowsOfPath(chunks, Rel("a.py")) # {}
    /\ RowsOfPath(chunks, Abs("a.py")) = {}
    /\ Len(index) = 4

\* C36: in every state reached by add_chunks, remove_file_chunks and
\* cleanup_deleted_files within one process lifetime, the embedding row of
\* every live chunk row is smaller than the vector count of the index,
\* and no two live chunk rows have the same embedding row.
C36_EmbeddingRowsResolve ==
    /\ \A r \in chunks : r.faiss_index >= 0 /\ r.faiss_index < Len(index)
    /\ Cardinality({r.faiss_index : r \in chunks}) = Cardinality(chunks)

\* C36 witness: rows were removed and rows were added after that, so the
\* index holds more vectors than there are live rows and the live rows
\* sit above orphaned vectors
C36_Witness ==
    /\ chunks # {}
    /\ removed # {}
    /\ orphaned # {}
    /\ Len(index) > Cardinality(chunks)
    /\ \E r \in chunks : \E o \in orphaned : o < r.faiss_index

\* C37: when the process was started again with its metadata and an empty
\* index, no hit of the index resolves to a chunk other than the one whose
\* content produced the vector at that position; a row written before the
\* restart is never the row of a vector added after it.
C37_IndependentRestore ==
    \A i \in 0..(Len(index) - 1) :
        \A r \in RowsOfHit(chunks, i) : Encode(r.content) = index[i + 1]

\* C38: orphaned vectors never reduce the number of live results: on a
\* store with live rows, a semantic search without file_pattern returns
\* min(top_k, number of live chunk rows) results.
C38_OrphansCostNoResults ==
    (/\ response.op = "search" /\ response.search_type = "semantic"
     /\ response.file_pattern = NoPattern
     /\ chunks # {}) =>
        Len(response.results) = Min(response.max_results, Cardinality(chunks))

\* C39: every indexing operation that took the lock releases it on every
\* exit path (completion, early return, exception), and under fair
\* scheduling every waiting operation gets the lock and every started
\* operation completes.
C39_LockReleasedAndGranted ==
    /\ (lock # "free") ~> (lock = "free")
    /\ \A t \in Tasks : (task[t].pc = "wait") ~> (task[t].pc # "wait")
    /\ \A t \in Tasks : (task[t].op # "idle") ~> (task[t].op = "idle")

\* C39 witness: an operation has left the lock by an exception while
\* another operation is waiting for it
C39_Witness ==
    /\ response = [op |-> "index", branch |-> "raised"]
    /\ lock = "free"
    /\ \E t \in Tasks : task[t].pc = "wait"

\* C40: read_symbol_content never returns the content of a file outside the
\* working directory: a path that resolves outside it, by '..', as an
\* absolute path, or into a sibling directory whose name begins with the
\* working directory's name, gives success = false and no file is opened.
C40_NoReadOutsideWorkingDir ==
    (response.op = "read_path" /\ ~IsRelativeTo(response.abs_path, working_dir)) =>
        ~response.success /\ response.opened = {}

====
